---------------------------- MODULE Spec2Model ----------------------------
(***************************************************************************)
(* ReSynth: chunking -> expanded retrieval -> citation attribution.        *)
(*                                                                         *)
(* Strings are sequences of one-character strings, so that len(), slices   *)
(* and the regular expressions of the text processor are computed and not  *)
(* assumed.  Similarities and distances are integers in tenths.            *)
(***************************************************************************)
EXTENDS Integers, Sequences, FiniteSets, TLC

VARIABLES
    \* SemanticChunker / chunk_multiple_papers
    papers,             \* the batch handed to chunk_multiple_papers
    chunk_size,         \* SemanticChunker.chunk_size
    chunk_overlap,      \* SemanticChunker.chunk_overlap
    paper_idx,          \* position of the for-loop of chunk_multiple_papers
    chunks,             \* what the latest chunk_paper call returned
    all_chunks,         \* the list chunk_multiple_papers builds
    raised_papers,      \* the batch positions whose chunk_paper call raised
    \* Retriever.retrieve
    pc,                 \* where the retrieve call is: idle, expand, merge, done
    top_k_arg,          \* the argument top_k (an optional integer)
    threshold_arg,      \* the argument similarity_threshold (an optional number)
    expanded_queries,   \* processed_query['expanded_queries'], as query numbers
    results,            \* the local list results of retrieve
    additional_results, \* the local list of _search_expanded_queries
    existing_chunk_ids, \* the local set of _search_expanded_queries
    exp_idx,            \* position of the for-loop of _search_expanded_queries
    search_calls,       \* the calls of vector_store.search of this retrieve, in order
    \* CitationFormatter
    citation_counter,   \* CitationFormatter.citation_counter
    \* AnswerSynthesizer calling add_citations_to_text(answer, chunks, citation_style)
    draft,              \* the argument text: the drafted answer
    cite_chunks,        \* the argument chunks
    citation_style,     \* the argument style of the latest call
    cited_answer,       \* the first value the latest call returned
    citations,          \* the second value the latest call returned, in dict order
    calls_left,         \* how many more calls the formatter will get
    numeric_calls,      \* how many calls had style numeric
    numeric_answers,    \* what the calls with style numeric returned
    \* two requests of one process inside add_citations_to_text
    req_pc,             \* where each request is
    req_map,            \* how many citations each request's citation_map holds
    req_i,              \* position of each request's current loop
    req_loaded,         \* the counter value each request read in its +=
    req_numbers,        \* citation_number of each request's citations, 0 for None
    req_markers,        \* the numbers of the markers each request emitted
    \* Retriever.retrieve_similar_chunks(chunk_id, top_k)
    sim_pc,             \* where the call is
    sim_chunk_id,       \* the argument chunk_id
    sim_top_k,          \* the argument top_k
    reference_chunk,    \* what get_chunk_by_id returned: a stored chunk or None
    similar_chunks,     \* the search results, then the value returned
    \* Retriever.validate_retrieval_quality(query, results)
    quality_pc,         \* where the call is
    quality_results,    \* the argument results
    quality,            \* the dict returned
    \* QueryProcessor.expand_query(query, max_expansions)
    expand_pc,          \* where the call is
    query_arg,          \* the argument query
    max_expansions,     \* the argument max_expansions
    key_phrases,        \* what extract_key_phrases returned
    expansions,         \* the list returned
    \* QueryProcessor.classify_query_type(query)
    classify_pc,        \* where the call is
    classify_query,     \* the argument query, a sequence of characters
    query_type,         \* the value returned
    \* AnswerSynthesizer.synthesize_answer and ReSynthAgent.query
    synth_pc,           \* where the call is
    retrieved_chunks,   \* the chunks retrieval yielded
    synth_call,         \* the call made: its entry point and arguments
    synthesized         \* the SynthesizedAnswer returned

chunkerVars == <<papers, chunk_size, chunk_overlap, paper_idx, chunks, all_chunks,
                 raised_papers>>

retrieverVars == <<pc, top_k_arg, threshold_arg, expanded_queries, results,
                   additional_results, existing_chunk_ids, exp_idx, search_calls>>

citeVars == <<draft, cite_chunks, citation_style, cited_answer, citations,
              calls_left, numeric_calls, numeric_answers>>

requestVars == <<req_pc, req_map, req_i, req_loaded, req_numbers, req_markers>>

similarVars == <<sim_pc, sim_chunk_id, sim_top_k, reference_chunk, similar_chunks>>

\* the variables of the operations that keep nothing between calls
qualityVars == <<quality_pc, quality_results, quality>>

expandVars == <<expand_pc, query_arg, max_expansions, key_phrases, expansions>>

classifyVars == <<classify_pc, classify_query, query_type>>

synthVars == <<synth_pc, retrieved_chunks, synth_call, synthesized>>

moreVars == <<similarVars, qualityVars, expandVars, classifyVars, synthVars>>

vars == <<chunkerVars, retrieverVars, citation_counter, citeVars, requestVars, moreVars>>

---------------------------------------------------------------------------
(* Bounds of the model *)

MaxBatch == 2
MaxChunkSize == 4
NumStored == 2
MaxTopK == 3
MaxCiteChunks == 3
MaxCalls == 2
MaxCitations == 2
MaxResults == 4
MaxExpansionsArg == 5
MaxPhrases == 2
MaxPhraseWords == 2
MaxQueryWords == 2

---------------------------------------------------------------------------
(* Python values *)

\* Python's None (printed "None" by an f-string)
NoneVal == "<None>"

\* str(x) as an f-string renders it
Str(x) == IF x = NoneVal THEN "None" ELSE x

\* None where a text (a sequence of characters) is expected
NoneText == <<NoneVal>>

\* truthiness of an optional string
Truthy(x) == x # NoneVal /\ x # ""

Min(a, b) == IF a <= b THEN a ELSE b

\* s[a:b] of Python for 0 <= a, 0 <= b
Slice(s, a, b) == SubSeq(s, a + 1, Min(b, Len(s)))

---------------------------------------------------------------------------
(* Character classes of the regular expressions in text_processor.py *)

\* \s
Whitespace == {" ", "\n", "\t"}

\* \d
Digits == {"0", "1", "2", "3", "4", "5", "6", "7", "8", "9"}

\* the punctuation clean_text keeps: \. \, \; \: \! \? \- \( \) \[ \] \{ \} \" \' \/ \\
KeptPunct == {".", ",", ";", ":", "!", "?", "-", "(", ")", "[", "]", "{", "}", "'", "/"}

\* characters of the modelled alphabet that are neither \w nor \s nor kept
SpecialChars == {"#", "&", "*", "@"}

IsSpace(c) == c \in Whitespace

\* the class [^\w\s\.\,\;\:\!\?\-\(\)\[\]\{\}\"\'\/\\] of clean_text
IsSpecial(c) == c \in SpecialChars

\* the elements of s[lo..hi] whose index kp keeps, in order (halving the range
\* keeps the evaluation shallow on long texts)
RECURSIVE KeepRange(_, _, _, _)
KeepRange(s, kp, lo, hi) ==
    IF lo > hi THEN <<>>
    ELSE IF lo = hi THEN (IF kp[lo] THEN <<s[lo]>> ELSE <<>>)
    ELSE LET mid == (lo + hi) \div 2
         IN  KeepRange(s, kp, lo, mid) \o KeepRange(s, kp, mid + 1, hi)

\* str.strip(): s without its leading and trailing whitespace
Strip(s) ==
    IF \A i \in 1..Len(s) : IsSpace(s[i]) THEN <<>>
    ELSE LET first == CHOOSE i \in 1..Len(s) :
                          ~IsSpace(s[i]) /\ \A k \in 1..(i - 1) : IsSpace(s[k])
             last == CHOOSE i \in 1..Len(s) :
                          ~IsSpace(s[i]) /\ \A k \in (i + 1)..Len(s) : IsSpace(s[k])
         IN  SubSeq(s, first, last)

\* re.sub(r'\s+', ' ', text): every maximal run of whitespace becomes one space
CollapseWhitespace(s) ==
    LET spaced == [i \in 1..Len(s) |-> IF IsSpace(s[i]) THEN " " ELSE s[i]]
        kp == [i \in 1..Len(s) |-> ~IsSpace(s[i]) \/ i = 1 \/ ~IsSpace(s[i - 1])]
    IN  KeepRange(spaced, kp, 1, Len(s))

\* re.sub(r'[^\w\s...]', ' ', text): every special character becomes a space
ReplaceSpecial(s) == [i \in 1..Len(s) |-> IF IsSpecial(s[i]) THEN " " ELSE s[i]]

\* TextProcessor.clean_text
clean_text(text) ==
    IF text = <<>> THEN <<>>
    ELSE Strip(CollapseWhitespace(ReplaceSpecial(CollapseWhitespace(text))))

\* index after the maximal run of digits that starts at i (i when there is none)
DigitsEnd(s, i) ==
    CHOOSE j \in i..(Len(s) + 1) :
        /\ j = Len(s) + 1 \/ s[j] \notin Digits
        /\ \A k \in i..(j - 1) : s[k] \in Digits

\* index after the maximal run of whitespace that starts at i
SpaceEnd(s, i) ==
    CHOOSE j \in i..(Len(s) + 1) :
        /\ j = Len(s) + 1 \/ ~IsSpace(s[j])
        /\ \A k \in i..(j - 1) : IsSpace(s[k])

\* (?:,\s*\d+)*\] from index j: the index after "]", or 0 when it does not match
RECURSIVE CiteGroupEnd(_, _)
CiteGroupEnd(s, j) ==
    IF j > Len(s) THEN 0
    ELSE IF s[j] = "]" THEN j + 1
    ELSE IF s[j] = ","
         THEN LET k == SpaceEnd(s, j + 1)
                  d == DigitsEnd(s, k)
              IN  IF d > k THEN CiteGroupEnd(s, d) ELSE 0
         ELSE 0

\* \[\d+(?:,\s*\d+)*\] at index i: the index after the match, or 0
BracketCiteEnd(s, i) ==
    IF s[i] = "[" /\ DigitsEnd(s, i + 1) > i + 1
    THEN CiteGroupEnd(s, DigitsEnd(s, i + 1))
    ELSE 0

\* \([^)]*\d{4}[^)]*\) at index i: the index after the match, or 0.  [^)]*
\* cannot cross a ")", so the match closes at the first ")" after i.
ParenCiteEnd(s, i) ==
    IF s[i] = "(" /\ \E j \in (i + 1)..Len(s) : s[j] = ")"
    THEN LET j == CHOOSE j \in (i + 1)..Len(s) :
                     s[j] = ")" /\ \A k \in (i + 1)..(j - 1) : s[k] # ")"
         IN  IF \E k \in (i + 1)..(j - 4) : \A d \in 0..3 : s[k + d] \in Digits
             THEN j + 1 ELSE 0
    ELSE 0

\* re.sub(r'\[\d+(?:,\s*\d+)*\]', '', text).  A match holds no "[" but its
\* first character, so matches never overlap and the left-to-right scan
\* removes every one of them.
RemoveBracketCites(s) ==
    LET kp == [i \in 1..Len(s) |->
                  ~\E j \in 1..i : s[j] = "[" /\ BracketCiteEnd(s, j) > i]
    IN  KeepRange(s, kp, 1, Len(s))

\* re.sub(r'\([^)]*\d{4}[^)]*\)', '', text).  Two matches that overlap close at
\* the same ")", and the scan takes the leftmost, which contains the other.
RemoveParenCites(s) ==
    LET kp == [i \in 1..Len(s) |->
                  ~\E j \in 1..i : s[j] = "(" /\ ParenCiteEnd(s, j) > i]
    IN  KeepRange(s, kp, 1, Len(s))

\* TextProcessor.remove_citations.  Its third pattern,
\* \w+\s+et\s+al\.\s*\(\d{4}\), ends in a literal "(dddd)"; the second pattern
\* has removed every parenthesis that holds four digits, so it matches nothing.
remove_citations(text) ==
    IF text = <<>> THEN <<>>
    ELSE Strip(CollapseWhitespace(RemoveParenCites(RemoveBracketCites(text))))

\* \n\s*\n at index i: the index of the last "\n" of the whitespace run that
\* follows i (the greedy \s* backtracks to it), or 0 when there is none
ParagraphBreakEnd(s, i) ==
    IF s[i] = "\n" /\ \E j \in (i + 1)..(SpaceEnd(s, i) - 1) : s[j] = "\n"
    THEN CHOOSE j \in (i + 1)..(SpaceEnd(s, i) - 1) :
             s[j] = "\n" /\ \A k \in (j + 1)..(SpaceEnd(s, i) - 1) : s[k] # "\n"
    ELSE 0

\* the first index >= from at which \n\s*\n matches, or 0
NextParagraphBreak(s, from) ==
    IF \E i \in from..Len(s) : ParagraphBreakEnd(s, i) > 0
    THEN CHOOSE i \in from..Len(s) :
             /\ ParagraphBreakEnd(s, i) > 0
             /\ \A k \in from..(i - 1) : ParagraphBreakEnd(s, k) = 0
    ELSE 0

\* re.split(r'\n\s*\n|\r\n\s*\r\n', text) (the alphabet has no "\r")
RECURSIVE SplitParagraphs(_, _)
SplitParagraphs(s, start) ==
    LET i == NextParagraphBreak(s, start)
    IN  IF i = 0 THEN <<SubSeq(s, start, Len(s))>>
        ELSE <<SubSeq(s, start, i - 1)>>
             \o SplitParagraphs(s, ParagraphBreakEnd(s, i) + 1)

\* paragraphs shorter than this are discarded (len(cleaned) > 50)
MinParagraphLen == 50

\* the loop of extract_paragraphs: clean every piece, keep the long ones
RECURSIVE FilterParagraphs(_)
FilterParagraphs(pieces) ==
    IF pieces = <<>> THEN <<>>
    ELSE LET cleaned == clean_text(Head(pieces))
         IN  IF cleaned # <<>> /\ Len(cleaned) > MinParagraphLen
             THEN <<cleaned>> \o FilterParagraphs(Tail(pieces))
             ELSE FilterParagraphs(Tail(pieces))

\* TextProcessor.extract_paragraphs
extract_paragraphs(text) ==
    IF text = <<>> THEN <<>>
    ELSE FilterParagraphs(SplitParagraphs(text, 1))

\* the literals of preprocess_paper_content's f-strings
TitleLabel == <<"T", "i", "t", "l", "e", ":", " ">>
AbstractLabel == <<"\n", "\n", "A", "b", "s", "t", "r", "a", "c", "t", ":", " ">>
ContentLabel == <<"\n", "\n", "C", "o", "n", "t", "e", "n", "t", ":", " ">>

\* TextProcessor.preprocess_paper_content
preprocess_paper_content(title, abstract, content) ==
    LET full_text == TitleLabel \o title \o AbstractLabel \o abstract
                     \o (IF content # <<>> THEN ContentLabel \o content ELSE <<>>)
    IN  remove_citations(clean_text(full_text))

---------------------------------------------------------------------------
(* The papers of the model (fetchers/base_fetcher.py, Paper) *)

\* n characters of w-letter words separated by single spaces
WordsText(n, w) == [i \in 1..n |-> IF i % (w + 1) = 0 /\ i < n THEN " " ELSE "w"]

Paper(title, abstract, content, arxiv_id, pubmed_id) ==
    [title |-> title, abstract |-> abstract, content |-> content,
     arxiv_id |-> arxiv_id, pubmed_id |-> pubmed_id]

\* a short paper without identifiers: 26 characters of preprocessed text
PaperShort == Paper(<<"T">>, WordsText(7, 3), NoneText, NoneVal, NoneVal)

\* another short paper without identifiers
PaperOther == Paper(<<"V">>, WordsText(7, 3), <<>>, "", NoneVal)

\* special characters, a bracketed citation and a blank line in the abstract
PaperNoisy ==
    Paper(<<"U">>, <<"a", "#", " ", "b", "[", "1", ",", " ", "2", "]", "\n", "\n", "c">>,
          NoneText, "A1", NoneVal)

\* 60 characters of preprocessed text in one block
PaperMid == Paper(<<"M">>, WordsText(41, 5), NoneText, NoneVal, "M1")

\* 250 characters of preprocessed text and no blank line
PaperLong == Paper(<<"L">>, WordsText(231, 5), NoneText, "A2", NoneVal)

\* a paper with content, whose blocks are separated by blank lines
PaperContent ==
    Paper(<<"C">>, WordsText(5, 2),
          WordsText(30, 4) \o <<"\n", "\n">> \o WordsText(30, 4), "A3", "M3")

Papers == {PaperShort, PaperOther, PaperNoisy, PaperMid, PaperLong, PaperContent}

\* paper.content or ""
ContentOrEmpty(paper) == IF paper.content = NoneText THEN <<>> ELSE paper.content

\* chunk_paper's full_text, per paper of the model
FullTextOf ==
    [p \in Papers |->
        preprocess_paper_content(p.title, p.abstract, ContentOrEmpty(p))]

\* chunk_paper's paragraphs, per paper of the model
ParagraphsOf == [p \in Papers |-> extract_paragraphs(FullTextOf[p])]

---------------------------------------------------------------------------
(* processors/chunker.py *)

\* getattr(paper, 'arxiv_id') or getattr(paper, 'pubmed_id', 'unknown'):
\* Paper always has the attribute pubmed_id, so the default is never used
PaperId(paper) ==
    IF Truthy(paper.arxiv_id) THEN paper.arxiv_id ELSE paper.pubmed_id

\* f"{paper_id}_{start_char}_{end_char}": the three fields of the identifier
ChunkId(paper, start_char, end_char) == <<Str(PaperId(paper)), start_char, end_char>>

\* SemanticChunker._create_chunk
create_chunk(text, paper, start_char, end_char) ==
    [text |-> text,
     chunk_id |-> ChunkId(paper, start_char, end_char),
     paper_title |-> paper.title,
     start_char |-> start_char,
     end_char |-> end_char]

\* the k-th window of _simple_chunk: text[i:i + chunk_size] at i = (k - 1) * step;
\* the window that takes the overlap on top of chunk_size is defined first
simple_window_with_overlap(text, paper, k, step) ==
    LET i == (k - 1) * step
        chunk_text == Slice(text, i, i + chunk_size + chunk_overlap)
    IN  create_chunk(chunk_text, paper, i, i + Len(chunk_text))

SimpleWindow(text, paper, k, step) ==
    LET i == (k - 1) * step
        chunk_text == Slice(text, i, i + chunk_size)
    IN  create_chunk(chunk_text, paper, i, i + Len(chunk_text))

\* _simple_chunk with the stride computed as chunk_size + chunk_overlap
simple_chunk_stride_slip(text, paper) ==
    LET step == chunk_size + chunk_overlap
        n == (Len(text) + step - 1) \div step
        windows == [k \in 1..n |-> SimpleWindow(text, paper, k, step)]
        kp == [k \in 1..n |-> Strip(windows[k].text) # <<>>]
    IN  [raised |-> FALSE, chunks |-> KeepRange(windows, kp, 1, n)]

\* SemanticChunker._simple_chunk: range(0, len(text), step) raises ValueError
\* on a step of 0 and is empty on a negative step; a window of whitespace
\* only is not emitted
simple_chunk(text, paper) ==
    LET step == chunk_size - chunk_overlap
    IN  IF step = 0 THEN [raised |-> TRUE, chunks |-> <<>>]
        ELSE IF step < 0 THEN [raised |-> FALSE, chunks |-> <<>>]
        ELSE LET n == (Len(text) + step - 1) \div step
                 windows == [k \in 1..n |-> SimpleWindow(text, paper, k, step)]
                 kp == [k \in 1..n |-> Strip(windows[k].text) # <<>>]
             IN  [raised |-> FALSE, chunks |-> KeepRange(windows, kp, 1, n)]

\* one iteration of the paragraph loop of chunk_paper (lines 57-82); the
\* iteration that passes over a paragraph the buffer has no room for is
\* defined first
pack_step_skipping_oversized(st, paragraph, paper) ==
    IF Len(st.current_chunk) + Len(paragraph) + 2 <= chunk_size
    THEN [st EXCEPT !.current_chunk =
              IF st.current_chunk # <<>>
              THEN st.current_chunk \o <<"\n", "\n">> \o paragraph
              ELSE paragraph]
    ELSE st

PackStep(st, paragraph, paper) ==
    IF Len(st.current_chunk) + Len(paragraph) + 2 <= chunk_size
    THEN [st EXCEPT !.current_chunk =
              IF st.current_chunk # <<>>
              THEN st.current_chunk \o <<"\n", "\n">> \o paragraph
              ELSE paragraph]
    ELSE LET flushed ==
                 IF Strip(st.current_chunk) # <<>>
                 THEN Append(st.chunks,
                             create_chunk(st.current_chunk, paper, st.chunk_start,
                                          st.chunk_start + Len(st.current_chunk)))
                 ELSE st.chunks
         IN  IF chunk_overlap > 0 /\ Len(st.current_chunk) > chunk_overlap
             THEN LET overlap_text ==
                          SubSeq(st.current_chunk,
                                 Len(st.current_chunk) - chunk_overlap + 1,
                                 Len(st.current_chunk))
                      new_chunk == overlap_text \o <<"\n", "\n">> \o paragraph
                  IN  [chunks |-> flushed,
                       current_chunk |-> new_chunk,
                       chunk_start |-> st.chunk_start + Len(new_chunk) - Len(overlap_text)]
             ELSE [chunks |-> flushed,
                   current_chunk |-> paragraph,
                   chunk_start |-> st.chunk_start + Len(paragraph)]

RECURSIVE PackFrom(_, _, _, _)
PackFrom(paragraphs, i, st, paper) ==
    IF i > Len(paragraphs) THEN st
    ELSE PackFrom(paragraphs, i + 1, PackStep(st, paragraphs[i], paper), paper)

\* the paragraph mode of chunk_paper (lines 52-94)
PackParagraphs(paragraphs, paper) ==
    LET st == PackFrom(paragraphs, 1,
                       [chunks |-> <<>>, current_chunk |-> <<>>, chunk_start |-> 0],
                       paper)
    IN  IF Strip(st.current_chunk) # <<>>
        THEN Append(st.chunks,
                    create_chunk(st.current_chunk, paper, st.chunk_start,
                                 st.chunk_start + Len(st.current_chunk)))
        ELSE st.chunks

\* SemanticChunker.chunk_paper
chunk_paper(paper) ==
    LET full_text == FullTextOf[paper]
        paragraphs == ParagraphsOf[paper]
    IN  IF paragraphs = <<>>
        THEN simple_chunk(full_text, paper)
        ELSE [raised |-> FALSE, chunks |-> PackParagraphs(paragraphs, paper)]

\* the configurations of the model: every size up to MaxChunkSize with every
\* overlap up to one more than the size, and the test suite's (100, 20)
TestChunkSize == 100
TestChunkOverlap == 20

ChunkerConfigs ==
    {<<s, o>> : s \in 1..MaxChunkSize, o \in 0..(MaxChunkSize + 1)}
    \cup {<<TestChunkSize, TestChunkOverlap>>}

\* the batches of the model: up to MaxBatch papers, repetitions included
Batches == UNION {[1..n -> Papers] : n \in 1..MaxBatch}

InitChunker ==
    /\ papers \in Batches
    /\ \E cfg \in ChunkerConfigs : chunk_size = cfg[1] /\ chunk_overlap = cfg[2]
    /\ paper_idx = 1
    /\ chunks = <<>>
    /\ all_chunks = <<>>
    /\ raised_papers = {}

\* the try statement of chunk_multiple_papers (lines 147-152): all_chunks
\* after a chunk_paper call with outcome r; a call that raised is logged and
\* all_chunks stays as it is.  The handling that gives up what was collected
\* is defined first.
extend_or_abort(collected, r) ==
    IF r.raised THEN <<>> ELSE collected \o r.chunks

extend_or_skip(collected, r) ==
    IF r.raised THEN collected ELSE collected \o r.chunks

\* one iteration of the loop of chunk_multiple_papers (lines 146-152)
ChunkNextPaper ==
    /\ paper_idx <= Len(papers)
    /\ LET r == chunk_paper(papers[paper_idx])
       IN  /\ chunks' = r.chunks
           /\ all_chunks' = extend_or_skip(all_chunks, r)
           /\ raised_papers' = IF r.raised THEN raised_papers \cup {paper_idx}
                               ELSE raised_papers
    /\ paper_idx' = paper_idx + 1
    /\ UNCHANGED <<papers, chunk_size, chunk_overlap>>
    /\ UNCHANGED <<retrieverVars, citation_counter, citeVars, requestVars, moreVars>>

\* chunk_multiple_papers has returned all_chunks
BatchDone == paper_idx > Len(papers)

---------------------------------------------------------------------------
(* embeddings/vector_store.py and retrieval/retriever.py *)

\* An optional argument is the empty set (None) or the set of its value
None == {}
Some(x) == {x}
ValueOf(opt) == CHOOSE x \in opt : TRUE

\* Config.TOP_K_RETRIEVAL and Config.SIMILARITY_THRESHOLD (0.7, in tenths)
TOP_K_RETRIEVAL == 5
SIMILARITY_THRESHOLD == 7

\* x or default, for an optional number: None and 0 are both falsy
OrDefault(opt, default) ==
    IF opt = None \/ ValueOf(opt) = 0 THEN default ELSE ValueOf(opt)

\* the chunks add_chunks has stored in the collection
StoredChunks == 1..NumStored

\* cosine distances the index reports, in tenths
Distances == {1, 3, 4}

\* the id under which add_chunks stored chunk c (ids = [chunk.chunk_id ...])
StoredId(c) == <<"id", c>>

\* the metadata add_chunks stored with chunk c: chunk.metadata (paper_title,
\* paper_authors, paper_url, paper_published_date, paper_journal, paper_doi,
\* chunk_type) updated with paper_title, paper_url, paper_authors, start_char,
\* end_char.  It has no key 'chunk_id'.
StoredMetadataKeys ==
    {"paper_title", "paper_authors", "paper_url", "paper_published_date",
     "paper_journal", "paper_doi", "chunk_type", "start_char", "end_char"}

\* what collection.query(n_results = n) can answer for one query embedding:
\* the nearest min(n, count) stored chunks, each once, by increasing distance
\* (ties in any order)
RankingsOfLen ==
    [m \in 0..NumStored |->
        {r \in [1..m -> [chunk : StoredChunks, distance : Distances]] :
            /\ \A i, j \in 1..m : i # j => r[i].chunk # r[j].chunk
            /\ \A i \in 1..(m - 1) : r[i].distance <= r[i + 1].distance}]

Rankings(n) == RankingsOfLen[Min(n, NumStored)]

\* the answers to the first query of a call: the stored chunks are numbered
\* by their rank in it
PrimaryRankings(n) ==
    {r \in Rankings(n) : \A i \in 1..Len(r) : r[i].chunk = i}

\* metadata.get('chunk_id', f'chunk_{i}') for the i-th row of the answer (i from 0)
ResultChunkId(c, i) ==
    IF "chunk_id" \in StoredMetadataKeys THEN StoredId(c) ELSE <<"chunk", i>>

\* the loop of VectorStore.search over the rows collection.query returned
\* (lines 101-116): similarity = 1 - distance, kept when >= the threshold
SearchRows(rows, similarity_threshold) ==
    LET hits == [i \in 1..Len(rows) |->
                    [chunk_id |-> ResultChunkId(rows[i].chunk, i - 1),
                     stored |-> rows[i].chunk,
                     similarity |-> 10 - rows[i].distance,
                     distance |-> rows[i].distance,
                     from_expanded_query |-> FALSE]]
        kp == [i \in 1..Len(rows) |-> hits[i].similarity >= similarity_threshold]
    IN  KeepRange(hits, kp, 1, Len(rows))

\* VectorStore.search: ranking is the collection's answer to the query's
\* embedding, of which n_results = top_k rows come back; a query that is
\* empty, or that could not be embedded (embedded = FALSE), gives []
search(ranking, embedded, top_k, similarity_threshold) ==
    IF ~embedded THEN <<>>
    ELSE SearchRows(SubSeq(ranking, 1, Min(top_k, Len(ranking))), similarity_threshold)

\* top_k = top_k or Config.TOP_K_RETRIEVAL
TopK == OrDefault(top_k_arg, TOP_K_RETRIEVAL)

\* similarity_threshold = similarity_threshold or Config.SIMILARITY_THRESHOLD
SimilarityThreshold == OrDefault(threshold_arg, SIMILARITY_THRESHOLD)

\* expand_query(query) with max_expansions = 3: the query itself and up to two more
MaxExpansions == 3

\* the body of the inner loop of _search_expanded_queries (lines 86-91)
RECURSIVE FilterNew(_, _, _, _)
FilterNew(query_results, additional, existing, top_k) ==
    IF query_results = <<>> THEN [additional |-> additional, existing |-> existing]
    ELSE LET result == Head(query_results)
         IN  IF result.chunk_id \notin existing /\ Len(additional) < top_k
             THEN FilterNew(Tail(query_results),
                            Append(additional, [result EXCEPT !.from_expanded_query = TRUE]),
                            existing \cup {result.chunk_id}, top_k)
             ELSE FilterNew(Tail(query_results), additional, existing, top_k)

\* list.sort(key=similarity, reverse=True): a stable sort by decreasing
\* similarity (insertion after the elements that are not smaller); the list
\* left in the order of collection is defined first
keep_order(seq) == seq

RECURSIVE InsertDesc(_, _)
InsertDesc(sorted, x) ==
    IF sorted = <<>> THEN <<x>>
    ELSE IF Head(sorted).similarity >= x.similarity
         THEN <<Head(sorted)>> \o InsertDesc(Tail(sorted), x)
         ELSE <<x>> \o sorted

RECURSIVE SortBySimilarityDesc(_)
SortBySimilarityDesc(seq) ==
    IF seq = <<>> THEN <<>>
    ELSE InsertDesc(SortBySimilarityDesc(SubSeq(seq, 1, Len(seq) - 1)), seq[Len(seq)])

\* what one call vector_store.search for n results can do: answer from a
\* ranking, answer [] for want of an embedding of the query, or raise
SearchOutcomes(n) ==
    {[ranking |-> r, embedded |-> TRUE, raises |-> FALSE] : r \in Rankings(n)}
    \cup {[ranking |-> <<>>, embedded |-> FALSE, raises |-> FALSE],
          [ranking |-> <<>>, embedded |-> FALSE, raises |-> TRUE]}

PrimaryOutcomes(n) ==
    {[ranking |-> r, embedded |-> TRUE, raises |-> FALSE] : r \in PrimaryRankings(n)}
    \cup {[ranking |-> <<>>, embedded |-> FALSE, raises |-> FALSE],
          [ranking |-> <<>>, embedded |-> FALSE, raises |-> TRUE]}

\* the arguments of the model
TopKArgs == {None} \cup {Some(k) : k \in 0..MaxTopK}
ThresholdArgs == {None, Some(0), Some(5), Some(9)}

InitRetriever ==
    /\ pc = "idle"
    /\ top_k_arg = None
    /\ threshold_arg = None
    /\ expanded_queries = <<>>
    /\ results = <<>>
    /\ additional_results = <<>>
    /\ existing_chunk_ids = {}
    /\ exp_idx = 1
    /\ search_calls = <<>>

\* one call vector_store.search(query, top_k = n, ...): query is 0 for the
\* processed query and e for expanded_queries[e]; had is len(additional_results)
\* when the call is made, returned the length of its answer
SearchCall(query, n, had, returned) ==
    [query |-> query, top_k |-> n, had |-> had, returned |-> returned, raised |-> FALSE]

\* such a call that raised
RaisedCall(query, n, had) ==
    [query |-> query, top_k |-> n, had |-> had, returned |-> 0, raised |-> TRUE]

\* retrieve(query, ...) with an empty query (lines 22-23)
RetrieveEmptyQuery ==
    /\ pc = "idle"
    /\ \E k \in TopKArgs, t \in ThresholdArgs : top_k_arg' = k /\ threshold_arg' = t
    /\ results' = <<>>
    /\ pc' = "done"
    /\ UNCHANGED <<expanded_queries, additional_results, existing_chunk_ids, exp_idx,
                   search_calls>>
    /\ UNCHANGED <<chunkerVars, citation_counter, citeVars, requestVars, moreVars>>

\* retrieve(query, top_k, similarity_threshold) up to the call of
\* _search_expanded_queries (lines 25-46 and 71-72): the primary search, and
\* the decision to expand; a primary search that raises ends the call with
\* [] (lines 64-66)
RetrievePrimary ==
    /\ pc = "idle"
    /\ \E k \in TopKArgs, t \in ThresholdArgs, n \in 1..MaxExpansions :
       \E o \in PrimaryOutcomes(OrDefault(k, TOP_K_RETRIEVAL)) :
          LET top_k == OrDefault(k, TOP_K_RETRIEVAL)
              found == search(o.ranking, o.embedded, top_k,
                              OrDefault(t, SIMILARITY_THRESHOLD))
          IN  /\ top_k_arg' = k
              /\ threshold_arg' = t
              /\ expanded_queries' = [i \in 1..n |-> i]
              /\ results' = found
              /\ existing_chunk_ids' = {found[i].chunk_id : i \in 1..Len(found)}
              /\ pc' = IF o.raises THEN "done"
                       ELSE IF Len(found) < top_k THEN "expand" ELSE "merge"
              /\ search_calls' = IF o.raises THEN <<RaisedCall(0, top_k, 0)>>
                                 ELSE <<SearchCall(0, top_k, 0, Len(found))>>
    /\ additional_results' = <<>>
    /\ exp_idx' = 1
    /\ UNCHANGED <<chunkerVars, citation_counter, citeVars, requestVars, moreVars>>

\* remaining_k = top_k - len(results), the top_k of _search_expanded_queries
RemainingK == TopK - Len(results)

\* the for-loop of _search_expanded_queries goes on (lines 74-76); the loop
\* that only ends with the list is defined first
expansion_until_list_ends == exp_idx <= Len(expanded_queries)

ExpansionContinues ==
    exp_idx <= Len(expanded_queries) /\ Len(additional_results) < RemainingK

\* where the for-loop of _search_expanded_queries goes after a search that
\* raised: `continue`, to the next expansion query (lines 93-95); the loop
\* that gives up is defined first
abandon_expansions(idx, queries) == Len(queries) + 1

after_failed_search(idx, queries) == idx + 1

\* one iteration of the for-loop of _search_expanded_queries (lines 74-95)
SearchExpandedQuery ==
    /\ pc = "expand"
    /\ ExpansionContinues
    /\ \E o \in SearchOutcomes(RemainingK) :
          LET query_results == search(o.ranking, o.embedded, RemainingK,
                                      SimilarityThreshold)
              kept == FilterNew(query_results, additional_results,
                                existing_chunk_ids, RemainingK)
          IN  /\ additional_results' = kept.additional
              /\ existing_chunk_ids' = kept.existing
              /\ search_calls' = Append(search_calls,
                     IF o.raises
                     THEN RaisedCall(expanded_queries[exp_idx], RemainingK,
                                     Len(additional_results))
                     ELSE SearchCall(expanded_queries[exp_idx], RemainingK,
                                     Len(additional_results), Len(query_results)))
              /\ exp_idx' = IF o.raises
                            THEN after_failed_search(exp_idx, expanded_queries)
                            ELSE exp_idx + 1
    /\ UNCHANGED <<pc, top_k_arg, threshold_arg, expanded_queries, results>>
    /\ UNCHANGED <<chunkerVars, citation_counter, citeVars, requestVars, moreVars>>

\* the end of retrieve (lines 48-62): extend, sort, cut to top_k
FinishRetrieve ==
    /\ pc = "merge" \/ (pc = "expand" /\ ~ExpansionContinues)
    /\ results' = SubSeq(SortBySimilarityDesc(results \o additional_results),
                         1, Min(TopK, Len(results) + Len(additional_results)))
    /\ pc' = "done"
    /\ UNCHANGED <<top_k_arg, threshold_arg, expanded_queries, additional_results,
                   existing_chunk_ids, exp_idx, search_calls>>
    /\ UNCHANGED <<chunkerVars, citation_counter, citeVars, requestVars, moreVars>>

NextRetriever ==
    \/ RetrieveEmptyQuery
    \/ RetrievePrimary
    \/ SearchExpandedQuery
    \/ FinishRetrieve

\* the chunker, idle
IdleChunker ==
    /\ papers = <<>>
    /\ chunk_size = TestChunkSize
    /\ chunk_overlap = TestChunkOverlap
    /\ paper_idx = 1
    /\ chunks = <<>>
    /\ all_chunks = <<>>
    /\ raised_papers = {}

\* the retriever, never called
IdleRetriever ==
    /\ pc = "unused"
    /\ top_k_arg = None
    /\ threshold_arg = None
    /\ expanded_queries = <<>>
    /\ results = <<>>
    /\ additional_results = <<>>
    /\ existing_chunk_ids = {}
    /\ exp_idx = 1
    /\ search_calls = <<>>

---------------------------------------------------------------------------
(* synthesis/citation_formatter.py *)

\* A text is its words in order, separated by single blanks.  A word is its
\* letters in lower case (base), whether it is written with a capital (cap),
\* and the punctuation mark that ends it (punct, "" for none).
Word(base) == [base |-> base, cap |-> FALSE, punct |-> ""]
Capital(w) == [w EXCEPT !.cap = TRUE]
Ending(w, mark) == [w EXCEPT !.punct = mark]

\* str.lower() of a word
lower(w) == [w EXCEPT !.cap = FALSE]

\* style.lower() for the styles of the model
style_lower(sty) == IF sty = "APA" THEN "apa" ELSE sty

\* set(s.lower().split())
WordSet(txt) == {lower(txt[i]) : i \in 1..Len(txt)}

\* common_words of _sentence_cites_paper
common_words ==
    {Word(b) : b \in {"the", "a", "an", "and", "or", "but", "in", "on", "at", "to",
                      "for", "of", "with", "by", "is", "are", "was", "were", "be",
                      "been", "have", "has", "had", "do", "does", "did", "will",
                      "would", "could", "should", "may", "might", "can", "this",
                      "that", "these", "those"}}

\* _sentence_cites_paper: more than 30% of the sentence's significant words
\* are words of the chunk; the test that 30% satisfies is defined first
sentence_cites_paper_from_threshold(sentence, chunk_text) ==
    LET sentence_words == WordSet(sentence) \ common_words
        chunk_words == WordSet(chunk_text) \ common_words
    IN  IF sentence_words = {} \/ chunk_words = {} THEN FALSE
        ELSE 10 * Cardinality(sentence_words \cap chunk_words)
                 >= 3 * Cardinality(sentence_words)

sentence_cites_paper(sentence, chunk_text) ==
    LET sentence_words == WordSet(sentence) \ common_words
        chunk_words == WordSet(chunk_text) \ common_words
    IN  IF sentence_words = {} \/ chunk_words = {} THEN FALSE
        ELSE 10 * Cardinality(sentence_words \cap chunk_words)
                 > 3 * Cardinality(sentence_words)

\* [.!?] of the sentence boundary
SentenceEnd == {".", "!", "?"}

\* re.split(r'(?<=[.!?])\s+', text): a sentence ends after a word that ends
\* in . ! or ? and is followed by another word; "" splits into [""]
split_sentences(txt) ==
    IF txt = <<>> THEN << <<>> >>
    ELSE LET ends == {i \in 1..(Len(txt) - 1) : txt[i].punct \in SentenceEnd}
                        \cup {Len(txt)}
             EndOf(k) == CHOOSE e \in ends : Cardinality({x \in ends : x <= e}) = k
             StartOf(k) == IF k = 1 THEN 1 ELSE EndOf(k - 1) + 1
         IN  [k \in 1..Cardinality(ends) |-> SubSeq(txt, StartOf(k), EndOf(k))]

\* create_citation_from_metadata; citation_number 0 stands for None, which
\* format_numeric does not tell from 0
create_citation_from_metadata(metadata) ==
    [paper_title |-> metadata.paper_title,
     authors |-> metadata.paper_authors,
     year |-> metadata.year,
     citation_number |-> 0]

\* create_citation_map: the dict as the sequence of its values in insertion
\* order, built from the first k chunks
RECURSIVE CitationMapUpTo(_, _)
CitationMapUpTo(chs, k) ==
    IF k = 0 THEN <<>>
    ELSE LET citation_map == CitationMapUpTo(chs, k - 1)
             paper_title == chs[k].metadata.paper_title
         IN  IF /\ Truthy(paper_title)
                /\ \A i \in 1..Len(citation_map) :
                       citation_map[i].paper_title # paper_title
             THEN Append(citation_map, create_citation_from_metadata(chs[k].metadata))
             ELSE citation_map

create_citation_map(chs) == CitationMapUpTo(chs, Len(chs))

\* citation_map[paper_title], as a position of the sequence
MapIndex(citation_map, paper_title) ==
    CHOOSE i \in 1..Len(citation_map) : citation_map[i].paper_title = paper_title

\* an inline marker: "[n]" or "(author_text, year_text)"
NumericMarker(n) ==
    [kind |-> "numeric", number |-> n, author_text |-> <<>>, year_text |-> ""]
AuthorDateMarker(author_text, year_text) ==
    [kind |-> "author_date", number |-> 0, author_text |-> author_text,
     year_text |-> year_text]
NoMarker == [kind |-> "none", number |-> 0, author_text |-> <<>>, year_text |-> ""]

\* the numbering of add_citations_to_text for style numeric (lines 166-169),
\* on a formatter whose counter is `counter`, with the numbering that goes on
\* from the counter instead of resetting it defined first
number_citations_from_counter(citation_map, counter) ==
    [citation_map |-> [i \in 1..Len(citation_map) |->
                          [citation_map[i] EXCEPT !.citation_number = counter + i]],
     counter |-> counter + Len(citation_map)]

number_citations(citation_map, counter) ==
    [citation_map |-> [i \in 1..Len(citation_map) |->
                          [citation_map[i] EXCEPT !.citation_number = i]],
     counter |-> Len(citation_map)]

\* format_numeric on a formatter whose counter is `counter`
format_numeric(citation, counter) ==
    IF citation.citation_number = 0
    THEN [citation |-> [citation EXCEPT !.citation_number = counter + 1],
          counter |-> counter + 1,
          citation_text |-> NumericMarker(counter + 1)]
    ELSE [citation |-> citation,
          counter |-> counter,
          citation_text |-> NumericMarker(citation.citation_number)]

\* format_author_date
format_author_date(citation) ==
    LET author_text == IF citation.authors = <<>> THEN <<"Anonymous">>
                       ELSE IF Len(citation.authors) = 1 THEN <<citation.authors[1]>>
                       ELSE <<citation.authors[1], "et al.">>
        year_text == IF Truthy(citation.year) THEN citation.year ELSE "n.d."
    IN  AuthorDateMarker(author_text, year_text)

\* paper_title in cited_papers (line 187), with the test that never finds a
\* paper cited defined first
never_cited(paper_title, cited_papers) == FALSE

already_cited(paper_title, cited_papers) == paper_title \in cited_papers

\* one iteration of the loop over the sentences (lines 176-202); st holds
\* citation_map, counter, cited_papers and cited_text.  A sentence of
\* cited_text is the sentence, the marker appended to it and the paper the
\* marker cites.
cite_sentence(st, sentence, chs, sty) ==
    LET hits == {k \in 1..Len(chs) :
                    /\ Truthy(chs[k].metadata.paper_title)
                    /\ sentence_cites_paper(sentence, chs[k].text)
                    /\ ~already_cited(chs[k].metadata.paper_title, st.cited_papers)}
    IN  IF hits = {}
        THEN [st EXCEPT !.cited_text =
                 Append(@, [sentence |-> sentence, citation_text |-> NoMarker,
                            cites |-> NoneVal])]
        ELSE LET k == CHOOSE h \in hits : \A g \in hits : h <= g
                 paper_title == chs[k].metadata.paper_title
                 idx == MapIndex(st.citation_map, paper_title)
                 citation == st.citation_map[idx]
                 formatted ==
                     IF style_lower(sty) = "numeric"
                     THEN format_numeric(citation, st.counter)
                     ELSE IF style_lower(sty) = "author_date"
                     THEN [citation |-> citation, counter |-> st.counter,
                           citation_text |-> format_author_date(citation)]
                     ELSE format_numeric(citation, st.counter)
             IN  [citation_map |-> [st.citation_map EXCEPT ![idx] = formatted.citation],
                  counter |-> formatted.counter,
                  cited_papers |-> st.cited_papers \cup {paper_title},
                  cited_text |-> Append(st.cited_text,
                                        [sentence |-> sentence,
                                         citation_text |-> formatted.citation_text,
                                         cites |-> paper_title])]

\* the loop over the sentences, from sentence k on
RECURSIVE cite_sentences(_, _, _, _, _)
cite_sentences(st, sentences, k, chs, sty) ==
    IF k > Len(sentences) THEN st
    ELSE cite_sentences(cite_sentence(st, sentences[k], chs, sty),
                        sentences, k + 1, chs, sty)

\* add_citations_to_text(text, chunks, style) on a formatter whose counter
\* is `counter`: the answer, the citation map and the counter it leaves.
\* Without chunks the text comes back as it is (here: its sentences, bare).
add_citations_to_text(txt, chs, sty, counter) ==
    LET sentences == split_sentences(txt)
    IN  IF chs = <<>>
        THEN [cited_text |-> [k \in 1..Len(sentences) |->
                                 [sentence |-> sentences[k],
                                  citation_text |-> NoMarker, cites |-> NoneVal]],
              citation_map |-> <<>>,
              counter |-> counter]
        ELSE LET citation_map == create_citation_map(chs)
                 numbered == IF style_lower(sty) = "numeric"
                             THEN number_citations(citation_map, counter)
                             ELSE [citation_map |-> citation_map, counter |-> counter]
                 done == cite_sentences([citation_map |-> numbered.citation_map,
                                         counter |-> numbered.counter,
                                         cited_papers |-> {},
                                         cited_text |-> <<>>],
                                        sentences, 1, chs, sty)
             IN  [cited_text |-> done.cited_text,
                  citation_map |-> done.citation_map,
                  counter |-> done.counter]

\* the drafted answers of the model:
\*   ""
\*   "Trees split data. Deep nets learn. Deep nets win."
\*   "Deep nets learn! the trees"
\*   "This is that. Nets learn deep, and win? Nets beat old trees"
\*   "Deep nets learn. deep nets learn one two three four five six seven"
DraftThree ==
    <<Capital(Word("trees")), Word("split"), Ending(Word("data"), "."),
      Capital(Word("deep")), Word("nets"), Ending(Word("learn"), "."),
      Capital(Word("deep")), Word("nets"), Ending(Word("win"), ".")>>
DraftTwo ==
    <<Capital(Word("deep")), Word("nets"), Ending(Word("learn"), "!"),
      Word("the"), Word("trees")>>
DraftCommon ==
    <<Capital(Word("this")), Word("is"), Ending(Word("that"), "."),
      Capital(Word("nets")), Word("learn"), Ending(Word("deep"), ","),
      Word("and"), Ending(Word("win"), "?"),
      Capital(Word("nets")), Word("beat"), Word("old"), Word("trees")>>
DraftTenWords ==
    <<Capital(Word("deep")), Word("nets"), Ending(Word("learn"), "."),
      Word("deep"), Word("nets"), Word("learn"), Word("one"), Word("two"),
      Word("three"), Word("four"), Word("five"), Word("six"), Word("seven")>>
Drafts == {<<>>, DraftThree, DraftTwo, DraftCommon, DraftTenWords}

\* the chunk texts of the model: "deep nets learn fast", "Trees split data."
TextNets == <<Word("deep"), Word("nets"), Word("learn"), Word("fast")>>
TextTrees == <<Capital(Word("trees")), Word("split"), Ending(Word("data"), ".")>>

\* the metadata of the chunks of paper A, of paper B, and of a chunk whose
\* metadata has no paper_title; year is the year
\* create_citation_from_metadata finds in paper_published_date
MetadataA == [paper_title |-> "A", paper_authors |-> <<"Smith">>, year |-> "2023"]
MetadataB == [paper_title |-> "B", paper_authors |-> <<"Lee", "Kim">>, year |-> NoneVal]
MetadataUntitled == [paper_title |-> NoneVal, paper_authors |-> <<>>, year |-> NoneVal]

\* the retrieved chunks a chunk list of the model is made of
CiteChunks ==
    {[text |-> TextNets, metadata |-> MetadataA],
     [text |-> TextNets, metadata |-> MetadataB],
     [text |-> TextTrees, metadata |-> MetadataB],
     [text |-> TextNets, metadata |-> MetadataUntitled]}

ChunkLists == UNION {[1..n -> CiteChunks] : n \in 0..MaxCiteChunks}

\* the styles of the model; harvard is a style the formatter does not know
Styles == {"numeric", "author_date", "APA", "mla", "harvard"}

\* a new CitationFormatter
InitFormatter == citation_counter = 0

\* an AnswerSynthesizer with its formatter, before the first answer
InitCitations ==
    /\ draft \in Drafts
    /\ cite_chunks \in ChunkLists
    /\ citation_style = NoneVal
    /\ cited_answer = <<>>
    /\ citations = <<>>
    /\ calls_left = MaxCalls
    /\ numeric_calls = 0
    /\ numeric_answers = {}

\* cited_answer, citations = add_citations_to_text(answer, chunks, citation_style)
AddCitationsToText ==
    /\ calls_left > 0
    /\ \E sty \in Styles :
          LET returned == add_citations_to_text(draft, cite_chunks, sty, citation_counter)
          IN  /\ citation_style' = sty
              /\ cited_answer' = returned.cited_text
              /\ citations' = returned.citation_map
              /\ citation_counter' = returned.counter
              /\ numeric_calls' = IF sty = "numeric" THEN numeric_calls + 1
                                  ELSE numeric_calls
              /\ numeric_answers' =
                     IF sty = "numeric"
                     THEN numeric_answers \cup {[cited_text |-> returned.cited_text,
                                                 citation_map |-> returned.citation_map]}
                     ELSE numeric_answers
    /\ calls_left' = calls_left - 1
    /\ UNCHANGED <<draft, cite_chunks>>
    /\ UNCHANGED <<chunkerVars, retrieverVars, requestVars, moreVars>>

\* no formatter call to come
IdleCitations ==
    /\ draft = <<>>
    /\ cite_chunks = <<>>
    /\ citation_style = NoneVal
    /\ cited_answer = <<>>
    /\ citations = <<>>
    /\ calls_left = 0
    /\ numeric_calls = 0
    /\ numeric_answers = {}

---------------------------------------------------------------------------
(* main.py: one AnswerSynthesizer, and with it one CitationFormatter, for *)
(* the whole process.  Two requests with style numeric are inside         *)
(* add_citations_to_text on that formatter, each in a thread of its own;   *)
(* a thread can be preempted between any two of the steps below.  Every     *)
(* paper of a request's citation_map is cited by one sentence of its draft, *)
(* in the order of the map.                                                 *)

Requests == {1, 2}

\* both requests have built their citation_map (line 162)
InitRequests ==
    /\ req_pc = [r \in Requests |-> "reset"]
    /\ req_map \in [Requests -> 1..MaxCitations]
    /\ req_i = [r \in Requests |-> 1]
    /\ req_loaded = [r \in Requests |-> 0]
    /\ req_numbers = [r \in Requests |-> [i \in 1..req_map[r] |-> 0]]
    /\ req_markers = [r \in Requests |-> <<>>]

\* self.citation_counter = 0 (line 166)
ResetCounter(r) ==
    /\ req_pc[r] = "reset"
    /\ citation_counter' = 0
    /\ req_pc' = [req_pc EXCEPT ![r] = "load"]
    /\ UNCHANGED <<req_map, req_i, req_loaded, req_numbers, req_markers>>
    /\ UNCHANGED <<chunkerVars, retrieverVars, citeVars, moreVars>>

\* self.citation_counter += 1 (line 168), the read
LoadCounter(r) ==
    /\ req_pc[r] = "load"
    /\ req_loaded' = [req_loaded EXCEPT ![r] = citation_counter]
    /\ req_pc' = [req_pc EXCEPT ![r] = "store"]
    /\ UNCHANGED <<citation_counter, req_map, req_i, req_numbers, req_markers>>
    /\ UNCHANGED <<chunkerVars, retrieverVars, citeVars, moreVars>>

\* self.citation_counter += 1 (line 168), the write
StoreCounter(r) ==
    /\ req_pc[r] = "store"
    /\ citation_counter' = req_loaded[r] + 1
    /\ req_pc' = [req_pc EXCEPT ![r] = "assign"]
    /\ UNCHANGED <<req_map, req_i, req_loaded, req_numbers, req_markers>>
    /\ UNCHANGED <<chunkerVars, retrieverVars, citeVars, moreVars>>

\* citation.citation_number = self.citation_counter (line 169), and the next
\* round of the loop over citation_map.values()
AssignNumber(r) ==
    /\ req_pc[r] = "assign"
    /\ req_numbers' = [req_numbers EXCEPT ![r][req_i[r]] = citation_counter]
    /\ req_i' = [req_i EXCEPT ![r] = IF req_i[r] < req_map[r] THEN req_i[r] + 1 ELSE 1]
    /\ req_pc' = [req_pc EXCEPT ![r] = IF req_i[r] < req_map[r] THEN "load" ELSE "format"]
    /\ UNCHANGED <<citation_counter, req_map, req_loaded, req_markers>>
    /\ UNCHANGED <<chunkerVars, retrieverVars, citeVars, moreVars>>

\* citation_text = self.format_numeric(citation) for the next paper cited
\* (lines 191 and 110-114)
FormatNumeric(r) ==
    /\ req_pc[r] = "format"
    /\ LET formatted == format_numeric([citation_number |-> req_numbers[r][req_i[r]]],
                                       citation_counter)
       IN  /\ citation_counter' = formatted.counter
           /\ req_numbers' = [req_numbers EXCEPT
                                 ![r][req_i[r]] = formatted.citation.citation_number]
           /\ req_markers' = [req_markers EXCEPT
                                 ![r] = Append(@, formatted.citation_text.number)]
    /\ req_i' = [req_i EXCEPT ![r] = req_i[r] + 1]
    /\ req_pc' = [req_pc EXCEPT ![r] = IF req_i[r] < req_map[r] THEN "format" ELSE "done"]
    /\ UNCHANGED <<req_map, req_loaded>>
    /\ UNCHANGED <<chunkerVars, retrieverVars, citeVars, moreVars>>

NextRequests ==
    \E r \in Requests :
        \/ ResetCounter(r)
        \/ LoadCounter(r)
        \/ StoreCounter(r)
        \/ AssignNumber(r)
        \/ FormatNumeric(r)

\* no request
IdleRequests ==
    /\ req_pc = [r \in Requests |-> "unused"]
    /\ req_map = [r \in Requests |-> 0]
    /\ req_i = [r \in Requests |-> 1]
    /\ req_loaded = [r \in Requests |-> 0]
    /\ req_numbers = [r \in Requests |-> <<>>]
    /\ req_markers = [r \in Requests |-> <<>>]

---------------------------------------------------------------------------
(* retrieval/retriever.py: retrieve_similar_chunks *)

\* similarity_threshold=0.3 of the search for similar chunks, in tenths
SIMILAR_THRESHOLD == 3

\* cosine distances of stored chunks to the text of a stored chunk, in tenths:
\* 0 for the chunk itself and for a chunk of the same text, 7 for a chunk just
\* at the threshold and 8 for one below it
SimilarDistances == {0, 1, 5, 7, 8}

\* what collection.query(n_results = n) can answer for the text of stored
\* chunk c: c at distance 0 among the nearest min(n, count) chunks, ahead of
\* every chunk that is farther
SimilarRankings(c, n) ==
    LET m == Min(n, NumStored)
    IN  {r \in [1..m -> [chunk : StoredChunks, distance : SimilarDistances]] :
            /\ \A i, j \in 1..m : i # j => r[i].chunk # r[j].chunk
            /\ \A i \in 1..(m - 1) : r[i].distance <= r[i + 1].distance
            /\ \A i \in 1..m : r[i].chunk = c => r[i].distance = 0
            /\ \/ \E i \in 1..m : r[i].chunk = c
               \/ \A i \in 1..m : r[i].distance = 0}

SimilarOutcomes(c, n) ==
    {[ranking |-> r, embedded |-> TRUE] : r \in SimilarRankings(c, n)}
    \cup {[ranking |-> <<>>, embedded |-> FALSE]}

\* the ids a caller can pass: those of the stored chunks, and one that is not stored
UnstoredId == <<"id", 0>>
ChunkIdArgs == {StoredId(c) : c \in StoredChunks} \cup {UnstoredId}

\* VectorStore.get_chunk_by_id: the chunk stored under chunk_id, None when
\* there is none or when collection.get raised (answered = FALSE)
get_chunk_by_id(chunk_id, answered) ==
    IF answered /\ \E c \in StoredChunks : StoredId(c) = chunk_id
    THEN Some(CHOOSE c \in StoredChunks : StoredId(c) = chunk_id)
    ELSE None

\* [result for result in results if result['chunk_id'] != chunk_id]; the list
\* that nothing is taken from is defined first
keep_every_result(found, chunk_id) == found

filter_reference(found, chunk_id) ==
    LET kp == [i \in 1..Len(found) |-> found[i].chunk_id # chunk_id]
    IN  KeepRange(found, kp, 1, Len(found))

InitSimilar ==
    /\ sim_pc = "idle"
    /\ sim_chunk_id = UnstoredId
    /\ sim_top_k = 0
    /\ reference_chunk = None
    /\ similar_chunks = <<>>

\* retrieve_similar_chunks(chunk_id, top_k), lines 120-123
GetReferenceChunk ==
    /\ sim_pc = "idle"
    /\ \E id \in ChunkIdArgs, k \in 0..MaxTopK, answered \in BOOLEAN :
          LET ref == get_chunk_by_id(id, answered)
          IN  /\ sim_chunk_id' = id
              /\ sim_top_k' = k
              /\ reference_chunk' = ref
              /\ sim_pc' = IF ref = None THEN "done" ELSE "found"
    /\ similar_chunks' = <<>>
    /\ UNCHANGED <<chunkerVars, retrieverVars, citation_counter, citeVars, requestVars>>
    /\ UNCHANGED <<qualityVars, expandVars, classifyVars, synthVars>>

\* lines 125-130: the search with the text of the reference chunk
SearchSimilar ==
    /\ sim_pc = "found"
    /\ \E o \in SimilarOutcomes(ValueOf(reference_chunk), sim_top_k + 1) :
          similar_chunks' = search(o.ranking, o.embedded, sim_top_k + 1,
                                   SIMILAR_THRESHOLD)
    /\ sim_pc' = "searched"
    /\ UNCHANGED <<sim_chunk_id, sim_top_k, reference_chunk>>
    /\ UNCHANGED <<chunkerVars, retrieverVars, citation_counter, citeVars, requestVars>>
    /\ UNCHANGED <<qualityVars, expandVars, classifyVars, synthVars>>

\* lines 132-138: the filter and the cut
ReturnSimilar ==
    /\ sim_pc = "searched"
    /\ similar_chunks' = Slice(filter_reference(similar_chunks, sim_chunk_id),
                               0, sim_top_k)
    /\ sim_pc' = "done"
    /\ UNCHANGED <<sim_chunk_id, sim_top_k, reference_chunk>>
    /\ UNCHANGED <<chunkerVars, retrieverVars, citation_counter, citeVars, requestVars>>
    /\ UNCHANGED <<qualityVars, expandVars, classifyVars, synthVars>>

NextSimilar ==
    \/ GetReferenceChunk
    \/ SearchSimilar
    \/ ReturnSimilar

\* retrieve_similar_chunks, never called
IdleSimilar ==
    /\ sim_pc = "unused"
    /\ sim_chunk_id = UnstoredId
    /\ sim_top_k = 0
    /\ reference_chunk = None
    /\ similar_chunks = <<>>

---------------------------------------------------------------------------
(* retrieval/retriever.py: validate_retrieval_quality *)

\* a fraction num/den, den > 0, and its comparison with a number of hundredths;
\* the comparison that also accepts equality is defined first
Fraction(num, den) == [num |-> num, den |-> den]

below_or_equal(frac, hundredths) == 100 * frac.num <= hundredths * frac.den

below(frac, hundredths) == 100 * frac.num < hundredths * frac.den

\* the thresholds 0.7, 0.5 and 0.3 of the quality assessment, in hundredths
LOW_AVERAGE == 70
VERY_LOW == 50
LOW_DIVERSITY == 30

\* result['similarity'] of the results of the model, in hundredths
QualitySimilarities == {40, 50, 85, 90}

\* result['metadata']: with or without the key paper_title
QualityTitles == {"Deep nets", "Decision trees", NoneVal}

QualityResult(similarity, title) == [similarity |-> similarity, paper_title |-> title]

QualityResults == [similarity : QualitySimilarities, paper_title : QualityTitles]

\* result['metadata'].get('paper_title', 'Unknown')
TitleOf(result) ==
    IF result.paper_title = NoneVal THEN "Unknown" ELSE result.paper_title

\* sum(similarities) in hundredths, and min(similarities)
RECURSIVE SumOfSimilarities(_)
SumOfSimilarities(rs) ==
    IF rs = <<>> THEN 0 ELSE Head(rs).similarity + SumOfSimilarities(Tail(rs))

MinOfSimilarities(rs) ==
    CHOOSE m \in {rs[i].similarity : i \in 1..Len(rs)} :
        \A i \in 1..Len(rs) : m <= rs[i].similarity

\* the chain of tests of lines 184-190
QualityIssues(avg_similarity, min_similarity, diversity_score) ==
    (IF below(avg_similarity, LOW_AVERAGE) THEN <<"Low average similarity">> ELSE <<>>)
    \o (IF below(Fraction(min_similarity, 100), VERY_LOW)
        THEN <<"Some results have very low similarity">> ELSE <<>>)
    \o (IF below(diversity_score, LOW_DIVERSITY)
        THEN <<"Low diversity in results">> ELSE <<>>)

\* validate_retrieval_quality(query, results); the similarities of the dict
\* are in hundredths, 'suggestions' is left out
validate_retrieval_quality(rs) ==
    IF rs = <<>>
    THEN [valid |-> FALSE, reason |-> "No results found"]
    ELSE LET avg_similarity == Fraction(SumOfSimilarities(rs), 100 * Len(rs))
             min_similarity == MinOfSimilarities(rs)
             paper_titles == {TitleOf(rs[i]) : i \in 1..Len(rs)}
             diversity_score == Fraction(Cardinality(paper_titles), Len(rs))
             quality_issues == QualityIssues(avg_similarity, min_similarity,
                                             diversity_score)
         IN  [valid |-> Len(quality_issues) = 0,
              average_similarity |-> avg_similarity,
              min_similarity |-> min_similarity,
              diversity_score |-> diversity_score,
              unique_papers |-> Cardinality(paper_titles),
              total_results |-> Len(rs),
              quality_issues |-> quality_issues]

InitQuality ==
    /\ quality_pc = "idle"
    /\ \E n \in 0..MaxResults : quality_results \in [1..n -> QualityResults]
    /\ quality = [valid |-> FALSE]

ValidateRetrievalQuality ==
    /\ quality_pc = "idle"
    /\ quality' = validate_retrieval_quality(quality_results)
    /\ quality_pc' = "done"
    /\ UNCHANGED quality_results
    /\ UNCHANGED <<chunkerVars, retrieverVars, citation_counter, citeVars, requestVars>>
    /\ UNCHANGED <<similarVars, expandVars, classifyVars, synthVars>>

\* validate_retrieval_quality, never called
IdleQuality ==
    /\ quality_pc = "unused"
    /\ quality_results = <<>>
    /\ quality = [valid |-> FALSE]

---------------------------------------------------------------------------
(* retrieval/query_processor.py: expand_query *)

\* A query is a sequence of characters in which every word counts as one
\* character of the class \w; the words of the model, and their lower case
QueryWords ==
    {"deep", "Deep", "nets", "Nets", "beat", "research", "Research", "on", "On",
     "studies", "analysis", "methods", "applications", "recent", "overview"}

IsQueryWord(c) == c \in QueryWords

LowerChar(c) ==
    CASE c = "Deep" -> "deep"
      [] c = "Nets" -> "nets"
      [] c = "Research" -> "research"
      [] c = "On" -> "on"
      [] c = "W" -> "w"
      [] OTHER -> c

\* str.lower()
lower_text(txt) == [i \in 1..Len(txt) |-> LowerChar(txt[i])]

\* QueryProcessor.preprocess_query
preprocess_query(query) ==
    IF query = <<>> THEN <<>>
    ELSE Strip(CollapseWhitespace(clean_text(query)))

\* the queries of the model: "deep nets", "Deep Nets beat deep nets",
\* " deep  nets#", "research on nets" and "Research On Nets"
QueryPlain == <<"deep", " ", "nets">>
QueryMixedCase == <<"Deep", " ", "Nets", " ", "beat", " ", "deep", " ", "nets">>
QueryUnclean == <<" ", "deep", " ", " ", "nets", "#">>
QueryPattern == <<"research", " ", "on", " ", "nets">>
QueryPatternCaps == <<"Research", " ", "On", " ", "Nets">>

Queries == {QueryPlain, QueryMixedCase, QueryUnclean, QueryPattern, QueryPatternCaps}

\* the number of words of txt[i..j]
WordsIn(txt, i, j) == Cardinality({k \in i..j : IsQueryWord(txt[k])})

\* the texts of the spans the language model can name in query (chunk.text,
\* ent.text): from a word to a word, of at most MaxPhraseWords words
PhraseCandidates(query) ==
    {SubSeq(query, i, j) : <<i, j>> \in
        {ij \in (1..Len(query)) \X (1..Len(query)) :
            /\ ij[1] <= ij[2]
            /\ IsQueryWord(query[ij[1]]) /\ IsQueryWord(query[ij[2]])
            /\ \A k \in ij[1]..ij[2] : query[k] # "#"
            /\ WordsIn(query, ij[1], ij[2]) <= MaxPhraseWords}}

\* TextProcessor.extract_key_phrases(text, max_phrases): [] without a language
\* model, else list(set(phrases))[:max_phrases], different phrases in any order
KeyPhraseLists(query, max_phrases) ==
    LET cand == PhraseCandidates(query)
    IN  UNION {{ps \in [1..n -> cand] : \A i, j \in 1..n : i # j => ps[i] # ps[j]} :
                  n \in 0..Min(max_phrases, MaxPhrases)}

\* the patterns of _create_query_variations
Patterns(key_phrase) ==
    <<<<"research", " ", "on", " ">> \o key_phrase,
      key_phrase \o <<" ", "studies">>,
      key_phrase \o <<" ", "analysis">>,
      key_phrase \o <<" ", "methods">>,
      key_phrase \o <<" ", "applications">>,
      <<"recent", " ">> \o key_phrase,
      key_phrase \o <<" ", "overview">>>>

\* QueryProcessor._create_query_variations
create_query_variations(key_phrase, original_query) ==
    LET patterns == Patterns(key_phrase)
        kp == [i \in 1..Len(patterns) |->
                  lower_text(patterns[i]) # lower_text(original_query)]
    IN  Slice(KeepRange(patterns, kp, 1, Len(patterns)), 0, 2)

Elements(list) == {list[i] : i \in 1..Len(list)}

\* the inner loop of expand_query (lines 48-50)
RECURSIVE AppendVariations(_, _, _)
AppendVariations(list, variations, max) ==
    IF variations = <<>> THEN list
    ELSE LET variation == Head(variations)
         IN  IF variation \notin Elements(list) /\ Len(list) < max
             THEN AppendVariations(Append(list, variation), Tail(variations), max)
             ELSE AppendVariations(list, Tail(variations), max)

\* the outer loop of expand_query (lines 41-50)
RECURSIVE ExpandFrom(_, _, _, _)
ExpandFrom(list, phrases, query, max) ==
    IF phrases = <<>> THEN list
    ELSE LET phrase == Head(phrases)
             with_phrase == IF phrase \notin Elements(list)
                            THEN Append(list, phrase) ELSE list
         IN  ExpandFrom(AppendVariations(with_phrase,
                                         create_query_variations(phrase, query), max),
                        Tail(phrases), query, max)

\* QueryProcessor.expand_query(query, max_expansions), given the key phrases
\* extract_key_phrases(query, max_expansions) returned
expand_query(query, max, phrases) ==
    IF query = <<>> THEN <<>>
    ELSE Slice(ExpandFrom(<<query>>, phrases, query, max), 0, max)

InitExpand ==
    /\ expand_pc = "idle"
    /\ query_arg \in Queries
    /\ max_expansions \in 0..MaxExpansionsArg
    /\ key_phrases = <<>>
    /\ expansions = <<>>

ExpandQuery ==
    /\ expand_pc = "idle"
    /\ \E phrases \in KeyPhraseLists(query_arg, max_expansions) :
          /\ key_phrases' = phrases
          /\ expansions' = expand_query(query_arg, max_expansions, phrases)
    /\ expand_pc' = "done"
    /\ UNCHANGED <<query_arg, max_expansions>>
    /\ UNCHANGED <<chunkerVars, retrieverVars, citation_counter, citeVars, requestVars>>
    /\ UNCHANGED <<similarVars, qualityVars, classifyVars, synthVars>>

\* expand_query, never called
IdleExpand ==
    /\ expand_pc = "unused"
    /\ query_arg = QueryPlain
    /\ max_expansions = MaxExpansions
    /\ key_phrases = <<>>
    /\ expansions = <<>>

---------------------------------------------------------------------------
(* retrieval/query_processor.py: classify_query_type *)

\* the vocabularies of classify_query_type, character by character
question_words ==
    {<<"w", "h", "a", "t">>, <<"h", "o", "w">>, <<"w", "h", "y">>,
     <<"w", "h", "e", "n">>, <<"w", "h", "e", "r", "e">>, <<"w", "h", "o">>,
     <<"w", "h", "i", "c", "h">>, <<"i", "s">>, <<"a", "r", "e">>, <<"d", "o">>,
     <<"d", "o", "e", "s">>, <<"c", "a", "n">>, <<"c", "o", "u", "l", "d">>,
     <<"s", "h", "o", "u", "l", "d">>, <<"w", "o", "u", "l", "d">>}

comparison_words ==
    {<<"c", "o", "m", "p", "a", "r", "e">>,
     <<"d", "i", "f", "f", "e", "r", "e", "n", "c", "e">>,
     <<"v", "e", "r", "s", "u", "s">>, <<"v", "s">>, <<"b", "e", "t", "t", "e", "r">>,
     <<"w", "o", "r", "s", "e">>,
     <<"a", "d", "v", "a", "n", "t", "a", "g", "e", "s">>,
     <<"d", "i", "s", "a", "d", "v", "a", "n", "t", "a", "g", "e", "s">>}

summary_words ==
    {<<"s", "u", "m", "m", "a", "r", "y">>,
     <<"o", "v", "e", "r", "v", "i", "e", "w">>, <<"r", "e", "v", "i", "e", "w">>,
     <<"s", "u", "r", "v", "e", "y">>,
     <<"i", "n", "t", "r", "o", "d", "u", "c", "t", "i", "o", "n">>,
     <<"b", "a", "c", "k", "g", "r", "o", "u", "n", "d">>}

method_words ==
    {<<"m", "e", "t", "h", "o", "d">>,
     <<"t", "e", "c", "h", "n", "i", "q", "u", "e">>,
     <<"a", "p", "p", "r", "o", "a", "c", "h">>,
     <<"a", "l", "g", "o", "r", "i", "t", "h", "m">>,
     <<"p", "r", "o", "c", "e", "d", "u", "r", "e">>,
     <<"p", "r", "o", "c", "e", "s", "s">>}

\* str.startswith(word)
StartsWith(txt, word) ==
    Len(word) <= Len(txt) /\ SubSeq(txt, 1, Len(word)) = word

\* word in txt, for strings
Contains(txt, word) ==
    \E i \in 1..(Len(txt) - Len(word) + 1) : SubSeq(txt, i, i + Len(word) - 1) = word

\* QueryProcessor.classify_query_type
classify_query_type(query) ==
    LET query_lower == lower_text(query)
    IN  IF \E word \in question_words : StartsWith(query_lower, word) THEN "question"
        ELSE IF \E word \in comparison_words : Contains(query_lower, word) THEN "comparison"
        ELSE IF \E word \in summary_words : Contains(query_lower, word) THEN "summary"
        ELSE IF \E word \in method_words : Contains(query_lower, word) THEN "method"
        ELSE "general"

\* the words the queries of the model are written with
ClassifyWords ==
    {<<"W", "h", "a", "t">>, <<"w", "h", "a", "t">>, <<"a", "r", "e">>,
     <<"i", "s", "o", "l", "a", "t", "i", "o", "n">>, <<"n", "e", "t", "s">>,
     <<"c", "o", "m", "p", "a", "r", "e">>,
     <<"o", "v", "e", "r", "v", "i", "e", "w">>, <<"m", "e", "t", "h", "o", "d">>}

\* ' '.join(words)
RECURSIVE JoinWords(_)
JoinWords(ws) ==
    IF ws = <<>> THEN <<>>
    ELSE IF Len(ws) = 1 THEN ws[1]
    ELSE ws[1] \o <<" ">> \o JoinWords(Tail(ws))

\* the queries of the model: the empty one, and up to MaxQueryWords words
ClassifyQueries ==
    {JoinWords(ws) : ws \in UNION {[1..n -> ClassifyWords] : n \in 0..MaxQueryWords}}

InitClassify ==
    /\ classify_pc = "idle"
    /\ classify_query \in ClassifyQueries
    /\ query_type = NoneVal

ClassifyQueryType ==
    /\ classify_pc = "idle"
    /\ query_type' = classify_query_type(classify_query)
    /\ classify_pc' = "done"
    /\ UNCHANGED classify_query
    /\ UNCHANGED <<chunkerVars, retrieverVars, citation_counter, citeVars, requestVars>>
    /\ UNCHANGED <<similarVars, qualityVars, expandVars, synthVars>>

\* classify_query_type, never called
IdleClassify ==
    /\ classify_pc = "unused"
    /\ classify_query = <<>>
    /\ query_type = NoneVal

---------------------------------------------------------------------------
(* synthesis/citation_formatter.py: the bibliography *)

\* format_apa and format_mla: the reference as its author text, its year
\* text and its title.  The metadata of the model carries no journal, DOI or
\* URL, so those parts are empty.
apa_author_text(citation) ==
    IF citation.authors = <<>> THEN [names |-> <<"Anonymous">>, et_al |-> FALSE]
    ELSE IF Len(citation.authors) <= 2 THEN [names |-> citation.authors, et_al |-> FALSE]
    ELSE [names |-> <<citation.authors[1]>>, et_al |-> TRUE]

format_apa(citation) ==
    [form |-> "apa",
     author_text |-> apa_author_text(citation),
     year_text |-> IF Truthy(citation.year) THEN citation.year ELSE "n.d.",
     title_text |-> citation.paper_title]

format_mla(citation) ==
    [form |-> "mla",
     author_text |-> apa_author_text(citation),
     year_text |-> IF Truthy(citation.year) THEN citation.year ELSE "",
     title_text |-> citation.paper_title]

\* get_bibliography_entry
get_bibliography_entry(citation, sty) ==
    IF style_lower(sty) = "apa" THEN format_apa(citation)
    ELSE IF style_lower(sty) = "mla" THEN format_mla(citation)
    ELSE format_apa(citation)

\* the first authors of the model and "Anonymous", in the order of Python's
\* comparison of str
AuthorKeys == <<"Anonymous", "Lee", "Smith">>

\* the sort keys of generate_bibliography: citation_number or 0, and
\* authors[0] or "Anonymous" as its place among the keys
numeric_key(citation) == citation.citation_number

author_key(citation) ==
    LET name == IF citation.authors = <<>> THEN "Anonymous" ELSE citation.authors[1]
    IN  CHOOSE r \in 1..Len(AuthorKeys) : AuthorKeys[r] = name

\* sorted(): ascending by key, equal keys in the order of the input
RECURSIVE InsertAsc(_, _)
InsertAsc(sorted, x) ==
    IF sorted = <<>> THEN <<x>>
    ELSE IF Head(sorted).key <= x.key
         THEN <<Head(sorted)>> \o InsertAsc(Tail(sorted), x)
         ELSE <<x>> \o sorted

RECURSIVE SortByKey(_)
SortByKey(seq) ==
    IF seq = <<>> THEN <<>>
    ELSE InsertAsc(SortByKey(SubSeq(seq, 1, Len(seq) - 1)), seq[Len(seq)])

\* sorted_citations of generate_bibliography; the list left in the order of
\* the map is defined first
citations_in_map_order(citation_map, sty) == citation_map

sorted_citations(citation_map, sty) ==
    LET keyed == [i \in 1..Len(citation_map) |->
                     [key |-> IF style_lower(sty) = "numeric"
                              THEN numeric_key(citation_map[i])
                              ELSE author_key(citation_map[i]),
                      citation |-> citation_map[i]]]
        in_order == SortByKey(keyed)
    IN  [i \in 1..Len(in_order) |-> in_order[i].citation]

\* the bibliography "": no heading and no entry
NoBibliography == [heading |-> NoneVal, entries |-> <<>>]

\* generate_bibliography: the lines joined by blank lines, as the heading
\* and the list of the entries
generate_bibliography(citation_map, sty) ==
    IF citation_map = <<>> THEN NoBibliography
    ELSE LET in_order == sorted_citations(citation_map, sty)
         IN  [heading |-> "## References",
              entries |-> [i \in 1..Len(in_order) |->
                              get_bibliography_entry(in_order[i], sty)]]

---------------------------------------------------------------------------
(* resynth/synthesis/answer_synthesizer.py and ReSynthAgent.query *)

\* len() of a word and of a text whose words are one character apart
TokenLen(w) == Len(w.base) + Len(w.punct)

RECURSIVE TextLen(_)
TextLen(txt) ==
    IF txt = <<>> THEN 0
    ELSE IF Len(txt) = 1 THEN TokenLen(txt[1])
    ELSE LET half == Len(txt) \div 2
         IN  TextLen(SubSeq(txt, 1, half)) + 1 + TextLen(SubSeq(txt, half + 1, Len(txt)))

\* the words of the model that hold a digit
NumberWords == {"95"}

has_digit(sentence) == \E i \in 1..Len(sentence) : sentence[i].base \in NumberWords

\* text.split('.'), each piece stripped; cur is the piece being read
RECURSIVE SplitPeriods(_, _)
SplitPeriods(txt, cur) ==
    IF txt = <<>> THEN <<cur>>
    ELSE IF Head(txt).punct = "."
         THEN <<Append(cur, Ending(Head(txt), ""))>> \o SplitPeriods(Tail(txt), <<>>)
         ELSE SplitPeriods(Tail(txt), Append(cur, Head(txt)))

\* the test of _extract_key_points on one sentence
IsKeyPoint(sentence) ==
    /\ TextLen(sentence) > 20
    /\ has_digit(sentence) \/ TextLen(sentence) > 50

\* _extract_key_points
extract_key_points(text) ==
    LET found == SelectSeq(SplitPeriods(text, <<>>), IsKeyPoint)
    IN  SubSeq(found, 1, Min(3, Len(found)))

\* _extract_relevant_information: the five chunks of highest similarity
extract_relevant_information(chs) ==
    LET sorted_chunks == SortBySimilarityDesc(chs)
    IN  [i \in 1..Min(5, Len(sorted_chunks)) |->
            [text |-> sorted_chunks[i].text,
             paper_title |-> IF sorted_chunks[i].metadata.paper_title = NoneVal THEN ""
                             ELSE sorted_chunks[i].metadata.paper_title,
             similarity |-> sorted_chunks[i].similarity,
             key_points |-> extract_key_points(sorted_chunks[i].text)]]

\* the lines an answer is joined from, each with its words and its len():
\* a heading, "\n{paper_title}:", "\nFrom {paper_title}:" and "- {point}"
HeadingPart(words) == [words |-> words, len |-> TextLen(words)]

TitlePart(paper_title) ==
    [words |-> <<[base |-> paper_title, cap |-> FALSE, punct |-> ":"]>>,
     len |-> 1 + Len(paper_title) + 1]

FromTitlePart(paper_title) ==
    [words |-> <<Capital(Word("from"))>> \o TitlePart(paper_title).words,
     len |-> 5 + TitlePart(paper_title).len]

PointPart(point) == [words |-> <<Word("-")>> \o point, len |-> 2 + TextLen(point)]

\* "\n".join(answer_parts), from part i on
RECURSIVE JoinParts(_, _)
JoinParts(answer_parts, i) ==
    IF i > Len(answer_parts) THEN [text |-> <<>>, len |-> 0]
    ELSE LET rest == JoinParts(answer_parts, i + 1)
         IN  [text |-> answer_parts[i].words \o rest.text,
              len |-> answer_parts[i].len + rest.len
                          + (IF i < Len(answer_parts) THEN 1 ELSE 0)]

\* the words of a heading that ends with a colon
Phrase(first, words) ==
    <<Capital(Word(first))>>
        \o [i \in 1..Len(words) |->
               IF i = Len(words) THEN Ending(Word(words[i]), ":") ELSE Word(words[i])]

\* the lines of one relevant_info: its title, then its key points; the
\* answer to a question says "From" and leaves out a paper without key points
InfoParts(info, title_always) ==
    IF info.key_points = <<>>
    THEN IF title_always THEN <<TitlePart(info.paper_title)>> ELSE <<>>
    ELSE <<IF title_always THEN TitlePart(info.paper_title)
           ELSE FromTitlePart(info.paper_title)>>
             \o [k \in 1..Len(info.key_points) |-> PointPart(info.key_points[k])]

RECURSIVE AllInfoParts(_, _, _)
AllInfoParts(relevant_info, i, title_always) ==
    IF i > Len(relevant_info) THEN <<>>
    ELSE InfoParts(relevant_info[i], title_always)
             \o AllInfoParts(relevant_info, i + 1, title_always)

\* all_points of _create_summary, and its unique_points
RECURSIVE AllPoints(_, _)
AllPoints(relevant_info, i) ==
    IF i > Len(relevant_info) THEN <<>>
    ELSE relevant_info[i].key_points \o AllPoints(relevant_info, i + 1)

RECURSIVE UniquePoints(_, _)
UniquePoints(all_points, i) ==
    IF i = 0 THEN <<>>
    ELSE LET unique_points == UniquePoints(all_points, i - 1)
         IN  IF \E k \in 1..Len(unique_points) : unique_points[k] = all_points[i]
             THEN unique_points
             ELSE Append(unique_points, all_points[i])

\* _answer_question, _create_comparison, _create_summary, _explain_methods
\* and _create_general_answer
answer_question(relevant_info) ==
    JoinParts(<<HeadingPart(<<Capital(Word("based")), Word("on"), Word("the"),
                              Word("research"), Ending(Word("papers"), ",")>>
                            \o <<Word("here's"), Word("the"), Word("answer"),
                                 Word("to"), Word("your"),
                                 Ending(Word("question"), ":")>>)>>
                 \o AllInfoParts(relevant_info, 1, FALSE), 1)

create_comparison(relevant_info) ==
    JoinParts(<<HeadingPart(Phrase("here's", <<"a", "comparison", "based", "on", "the",
                                                "research", "papers">>))>>
                 \o AllInfoParts(relevant_info, 1, TRUE), 1)

create_summary(relevant_info) ==
    LET all_points == AllPoints(relevant_info, 1)
        unique_points == UniquePoints(all_points, Len(all_points))
    IN  JoinParts(<<HeadingPart(Phrase("summary", <<"of", "key", "findings">>))>>
                     \o [k \in 1..Min(10, Len(unique_points)) |->
                            PointPart(unique_points[k])], 1)

explain_methods(relevant_info) ==
    JoinParts(<<HeadingPart(Phrase("methods", <<"and", "approaches", "described", "in",
                                                 "the", "papers">>))>>
                 \o AllInfoParts(relevant_info, 1, TRUE), 1)

create_general_answer(relevant_info) ==
    JoinParts(<<HeadingPart(Phrase("based", <<"on", "the", "research", "papers">>))>>
                 \o AllInfoParts(relevant_info, 1, TRUE), 1)

\* _calculate_confidence_score, exactly: with similarities in hundredths,
\*   avg_similarity * 0.5 + chunk_factor * 0.3 + length_factor * 0.2
\* is (25 * sum + 300 * min(n, 5) * n + 2 * min(len, 500) * n) / (5000 * n)
calculate_confidence_score(chs, answer_len) ==
    IF chs = <<>> \/ answer_len = 0 THEN Fraction(0, 1)
    ELSE LET n == Len(chs)
             num == 25 * SumOfSimilarities(chs) + 300 * Min(n, 5) * n
                        + 2 * Min(answer_len, 500) * n
             den == 5000 * n
         IN  IF num > den THEN Fraction(1, 1) ELSE Fraction(num, den)

\* SynthesizedAnswer
SynthesizedAnswer(answer, citation_map, bibliography, confidence_score, source_chunks, qtype) ==
    [answer |-> answer, citations |-> citation_map, bibliography |-> bibliography,
     confidence_score |-> confidence_score, source_chunks |-> source_chunks,
     query_type |-> qtype]

\* the answer texts: the placeholder of synthesize_answer, the listing of
\* _fallback_synthesis, and a draft with its citations
NoInformation == [kind |-> "no_information", points |-> <<>>, cited_text |-> <<>>]

FallbackListing(points) == [kind |-> "fallback", points |-> points, cited_text |-> <<>>]

CitedText(cited_text) == [kind |-> "cited", points |-> <<>>, cited_text |-> cited_text]

\* _fallback_synthesis; no text of the model is longer than 200 characters
fallback_synthesis(chs, qtype, sty) ==
    SynthesizedAnswer(
        FallbackListing([i \in 1..Min(3, Len(chs)) |->
                            [paper_title |-> IF chs[i].metadata.paper_title = NoneVal
                                             THEN "Unknown Paper"
                                             ELSE chs[i].metadata.paper_title,
                             text |-> chs[i].text]]),
        <<>>, NoBibliography, Fraction(1, 2), chs, qtype)

\* lines 89-107 and 132-150: citations, bibliography and confidence of a
\* drafted answer; with the answer, the counter the formatter is left with
cite_and_score(answer, chs, qtype, sty, counter) ==
    LET returned == add_citations_to_text(answer.text, chs, sty, counter)
    IN  [answer |-> SynthesizedAnswer(
                        CitedText(returned.cited_text),
                        returned.citation_map,
                        generate_bibliography(returned.citation_map, sty),
                        calculate_confidence_score(chs, answer.len),
                        chs, qtype),
         counter |-> returned.counter]

\* _synthesize_locally
synthesize_locally(chs, qtype, sty, counter) ==
    LET relevant_info == extract_relevant_information(chs)
        answer == IF qtype = "question" THEN answer_question(relevant_info)
                  ELSE IF qtype = "comparison" THEN create_comparison(relevant_info)
                  ELSE IF qtype = "summary" THEN create_summary(relevant_info)
                  ELSE IF qtype = "method" THEN explain_methods(relevant_info)
                  ELSE create_general_answer(relevant_info)
    IN  cite_and_score(answer, chs, qtype, sty, counter)

\* what the completion service does on one call: it raises, or it replies
\* with a content, which may be None
Raises == [raises |-> TRUE, content |-> NoneText]
Replies(content) == [raises |-> FALSE, content |-> content]
NotCalled == [raises |-> FALSE, content |-> <<>>]

\* _synthesize_with_openai.  A content of None makes re.split raise inside
\* add_citations_to_text, after the numbering of style numeric has set the
\* counter; the except clause of line 109 takes both failures.
synthesize_with_openai(chs, qtype, sty, reply, counter) ==
    IF reply.raises
    THEN [answer |-> fallback_synthesis(chs, qtype, sty), counter |-> counter]
    ELSE IF reply.content = NoneText
    THEN [answer |-> fallback_synthesis(chs, qtype, sty),
          counter |-> IF style_lower(sty) = "numeric"
                      THEN number_citations(create_citation_map(chs), counter).counter
                      ELSE counter]
    ELSE cite_and_score([text |-> reply.content, len |-> TextLen(reply.content)],
                        chs, qtype, sty, counter)

\* synthesize_answer.  _synthesize_locally raises on no chunk list of the
\* model, so the except clause of line 56 is never entered from it.
synthesize_answer(chs, qtype, sty, use_openai, reply, counter) ==
    IF chs = <<>>
    THEN [answer |-> SynthesizedAnswer(NoInformation, <<>>, NoBibliography,
                                       Fraction(0, 1), <<>>, qtype),
          counter |-> counter]
    ELSE IF use_openai THEN synthesize_with_openai(chs, qtype, sty, reply, counter)
    ELSE synthesize_locally(chs, qtype, sty, counter)

\* ReSynthAgent.query, from the chunks retrieve returned
agent_query(chs, sty, use_openai, reply, counter) ==
    IF chs = <<>>
    THEN [answer |-> fallback_synthesis(chs, "general", sty), counter |-> counter]
    ELSE synthesize_answer(chs, "general", sty, use_openai, reply, counter)

\* the chunk texts of the synthesizer's model, beside "deep nets learn fast"
\* (20 characters) and "Trees split data.":
\*   "deep nets learn structure from large data with many layers fast." (64)
\*   "trees reach 95 percent now." (27)
TextLayers ==
    <<Word("deep"), Word("nets"), Word("learn"), Word("structure"), Word("from"),
      Word("large"), Word("data"), Word("with"), Word("many"), Word("layers"),
      Ending(Word("fast"), ".")>>
TextScore ==
    <<Word("trees"), Word("reach"), Word("95"), Word("percent"), Ending(Word("now"), ".")>>

\* the metadata of the chunks of paper C, without authors, and of paper D,
\* whose first author is the one of paper A
MetadataC == [paper_title |-> "C", paper_authors |-> <<>>, year |-> NoneVal]
MetadataD == [paper_title |-> "D", paper_authors |-> <<"Smith", "Lee", "Kim">>,
              year |-> "2021"]

\* a result of vector_store.search, its similarity in hundredths
RetrievedChunk(text, metadata, similarity) ==
    [text |-> text, metadata |-> metadata, similarity |-> similarity]

\* the retrieved chunks a chunk list of the model is made of, and the lists
MaxSynthChunks == 3

SynthChunks ==
    {RetrievedChunk(TextNets, MetadataA, 90),
     RetrievedChunk(TextLayers, MetadataB, 80),
     RetrievedChunk(TextScore, MetadataC, -50),
     RetrievedChunk(TextNets, MetadataD, 30),
     RetrievedChunk(TextTrees, MetadataUntitled, 100)}

RetrievedLists == UNION {[1..n -> SynthChunks] : n \in 0..MaxSynthChunks}

\* a reply of 130 words and 649 characters
DraftLong == [i \in 1..130 |-> Word("deep")]

\* what the completion service can do
LlmReplies ==
    {Raises, Replies(NoneText), Replies(<<>>), Replies(DraftTwo), Replies(DraftLong)}

QueryTypes == {"general", "question", "comparison", "summary", "method"}

\* the call made
SynthCall(entry, qtype, sty, use_openai, reply) ==
    [entry |-> entry, query_type |-> qtype, citation_style |-> sty,
     use_openai |-> use_openai, reply |-> reply]

\* an AnswerSynthesizer, and the chunks retrieval has yielded
InitSynth ==
    /\ synth_pc = "idle"
    /\ retrieved_chunks \in RetrievedLists
    /\ synth_call = NoneVal
    /\ synthesized = NoneVal

\* synthesizer.synthesize_answer(query, chunks, query_type, citation_style);
\* use_openai is what the configuration made of it at construction
SynthesizeAnswer ==
    /\ synth_pc = "idle"
    /\ \E qtype \in QueryTypes, sty \in Styles, use_openai \in BOOLEAN :
       \E reply \in IF use_openai THEN LlmReplies ELSE {NotCalled} :
          LET returned == synthesize_answer(retrieved_chunks, qtype, sty, use_openai,
                                            reply, citation_counter)
          IN  /\ synth_call' = SynthCall("synthesize_answer", qtype, sty, use_openai, reply)
              /\ synthesized' = returned.answer
              /\ citation_counter' = returned.counter
    /\ synth_pc' = "done"
    /\ UNCHANGED retrieved_chunks
    /\ UNCHANGED <<chunkerVars, retrieverVars, citeVars, requestVars>>
    /\ UNCHANGED <<similarVars, qualityVars, expandVars, classifyVars>>

\* agent.query(question, citation_style), after its retrieve
AgentQuery ==
    /\ synth_pc = "idle"
    /\ \E sty \in Styles, use_openai \in BOOLEAN :
       \E reply \in IF use_openai THEN LlmReplies ELSE {NotCalled} :
          LET returned == agent_query(retrieved_chunks, sty, use_openai, reply,
                                      citation_counter)
          IN  /\ synth_call' = SynthCall("query", "general", sty, use_openai, reply)
              /\ synthesized' = returned.answer
              /\ citation_counter' = returned.counter
    /\ synth_pc' = "done"
    /\ UNCHANGED retrieved_chunks
    /\ UNCHANGED <<chunkerVars, retrieverVars, citeVars, requestVars>>
    /\ UNCHANGED <<similarVars, qualityVars, expandVars, classifyVars>>

NextSynth == SynthesizeAnswer \/ AgentQuery

\* the synthesizer, never called
IdleSynth ==
    /\ synth_pc = "unused"
    /\ retrieved_chunks = <<>>
    /\ synth_call = NoneVal
    /\ synthesized = NoneVal

\* the operations that keep nothing between calls, never called
IdleMore == IdleSimilar /\ IdleQuality /\ IdleExpand /\ IdleClassify /\ IdleSynth

---------------------------------------------------------------------------
(* Specifications: one for each component, and all of them together *)

InitChunk ==
    InitChunker /\ IdleRetriever /\ InitFormatter /\ IdleCitations /\ IdleRequests /\ IdleMore

SpecChunk == InitChunk /\ [][ChunkNextPaper]_vars

InitRetrieve ==
    IdleChunker /\ InitRetriever /\ InitFormatter /\ IdleCitations /\ IdleRequests /\ IdleMore

SpecRetrieve == InitRetrieve /\ [][NextRetriever]_vars

InitCite ==
    IdleChunker /\ IdleRetriever /\ InitFormatter /\ InitCitations /\ IdleRequests /\ IdleMore

SpecCite == InitCite /\ [][AddCitationsToText]_vars

InitConc ==
    IdleChunker /\ IdleRetriever /\ InitFormatter /\ IdleCitations /\ InitRequests /\ IdleMore

SpecConc == InitConc /\ [][NextRequests]_vars

InitSim ==
    IdleChunker /\ IdleRetriever /\ InitFormatter /\ IdleCitations /\ IdleRequests
    /\ InitSimilar /\ IdleQuality /\ IdleExpand /\ IdleClassify /\ IdleSynth

SpecSimilar == InitSim /\ [][NextSimilar]_vars

InitQual ==
    IdleChunker /\ IdleRetriever /\ InitFormatter /\ IdleCitations /\ IdleRequests
    /\ IdleSimilar /\ InitQuality /\ IdleExpand /\ IdleClassify /\ IdleSynth

SpecQuality == InitQual /\ [][ValidateRetrievalQuality]_vars

InitExp ==
    IdleChunker /\ IdleRetriever /\ InitFormatter /\ IdleCitations /\ IdleRequests
    /\ IdleSimilar /\ IdleQuality /\ InitExpand /\ IdleClassify /\ IdleSynth

SpecExpand == InitExp /\ [][ExpandQuery]_vars

InitClass ==
    IdleChunker /\ IdleRetriever /\ InitFormatter /\ IdleCitations /\ IdleRequests
    /\ IdleSimilar /\ IdleQuality /\ IdleExpand /\ InitClassify /\ IdleSynth

SpecClassify == InitClass /\ [][ClassifyQueryType]_vars

InitSyn ==
    IdleChunker /\ IdleRetriever /\ InitFormatter /\ IdleCitations /\ IdleRequests
    /\ IdleSimilar /\ IdleQuality /\ IdleExpand /\ IdleClassify /\ InitSynth

SpecSynth == InitSyn /\ [][NextSynth]_vars

Init ==
    \/ InitChunk \/ InitRetrieve \/ InitCite \/ InitConc \/ InitSim \/ InitQual
    \/ InitExp \/ InitClass \/ InitSyn

Next ==
    \/ ChunkNextPaper
    \/ NextRetriever
    \/ AddCitationsToText
    \/ NextRequests
    \/ NextSimilar
    \/ ValidateRetrievalQuality
    \/ ExpandQuery
    \/ ClassifyQueryType
    \/ NextSynth

Spec == Init /\ [][Next]_vars

---------------------------------------------------------------------------
(* Properties of the chunk segmenter *)

\* the paper the latest chunk_paper call segmented
LastPaper == papers[paper_idx - 1]

\* chunk_paper took the fallback path for paper p
FallbackMode(p) == ParagraphsOf[p] = <<>>

\* 0 <= chunk_overlap < chunk_size
ValidConfig == 0 <= chunk_overlap /\ chunk_overlap < chunk_size

\* the union of the ranges [start_char, end_char) of cs is [0, n)
CoversExactly(cs, n) ==
    /\ \A pos \in 0..(n - 1) :
           \E k \in 1..Len(cs) : cs[k].start_char <= pos /\ pos < cs[k].end_char
    /\ \A k \in 1..Len(cs) : 0 <= cs[k].start_char /\ cs[k].end_char <= n

\* s holds two consecutive line breaks
HasBlankLine(s) == \E i \in 1..(Len(s) - 1) : s[i] = "\n" /\ s[i + 1] = "\n"

\* the ranges of cs, in order
Ranges(cs) == [k \in 1..Len(cs) |-> <<cs[k].start_char, cs[k].end_char>>]

\* C2: the chunk_id values of all chunks chunk_multiple_papers returns are
\* pairwise distinct, for every batch (the same paper twice, papers without
\* identifiers).
C2_ChunkIdsDistinct ==
    BatchDone =>
        \A i, j \in 1..Len(all_chunks) :
            i # j => all_chunks[i].chunk_id # all_chunks[j].chunk_id

\* C7 as stated: in fallback mode with 0 <= chunk_overlap < chunk_size the
\* ranges of the emitted chunks cover [0, len(preprocessed text)) exactly.
C7_FallbackCoverage ==
    (paper_idx > 1 /\ FallbackMode(LastPaper) /\ ValidConfig)
        => CoversExactly(chunks, Len(FullTextOf[LastPaper]))

\* C7 amended: the same for chunk_size >= 2 (a one-character window that is a
\* space is dropped, so with chunk_size = 1 the spaces are not covered).
C7_FallbackCoverageFromTwo ==
    (paper_idx > 1 /\ FallbackMode(LastPaper) /\ ValidConfig /\ chunk_size >= 2)
        => CoversExactly(chunks, Len(FullTextOf[LastPaper]))

\* a fallback segmentation with overlapping windows, the last one shorter
C7_Witness ==
    /\ paper_idx > 1 /\ FallbackMode(LastPaper)
    /\ chunk_size >= 2 /\ chunk_overlap >= 1 /\ chunk_overlap < chunk_size
    /\ Len(chunks) >= 3
    /\ Len(chunks[Len(chunks)].text) < chunk_size
    /\ \E k \in 1..Len(chunks) : \E i \in 1..Len(chunks[k].text) : chunks[k].text[i] = " "

\* C8: chunk_size = 100, chunk_overlap = 20 and 250 characters of preprocessed
\* text without a blank line give, on the fallback path, exactly the chunks
\* [0,100), [80,180), [160,250).
C8_FallbackExample ==
    (/\ paper_idx > 1
     /\ chunk_size = TestChunkSize /\ chunk_overlap = TestChunkOverlap
     /\ Len(FullTextOf[LastPaper]) = 250
     /\ ~HasBlankLine(FullTextOf[LastPaper]))
        => /\ FallbackMode(LastPaper)
           /\ Ranges(chunks) = <<<<0, 100>>, <<80, 180>>, <<160, 250>>>>

\* C9: every chunk chunk_paper emits has text that is not only whitespace,
\* 0 <= start_char < end_char, and its text is the preprocessed text at
\* [start_char, end_char); the first chunk starts at offset 0.
C9_ChunkTextAtRange ==
    paper_idx > 1 =>
        /\ \A k \in 1..Len(chunks) :
               /\ Strip(chunks[k].text) # <<>>
               /\ 0 <= chunks[k].start_char
               /\ chunks[k].start_char < chunks[k].end_char
               /\ Slice(FullTextOf[LastPaper], chunks[k].start_char, chunks[k].end_char)
                      = chunks[k].text
        /\ Len(chunks) >= 1 => chunks[1].start_char = 0

\* C10: a paper whose preprocessed text is longer than chunk_size yields more
\* than one chunk, and every chunk carries the paper's title.
C10_LongPaperManyChunks ==
    (paper_idx > 1 /\ ValidConfig /\ Len(FullTextOf[LastPaper]) > chunk_size)
        => /\ Len(chunks) > 1
           /\ \A k \in 1..Len(chunks) : chunks[k].paper_title = LastPaper.title

\* C11: in paragraph mode a flushed buffer seeds the next chunk with its last
\* chunk_overlap characters.  The case needs a second chunk in paragraph mode;
\* the preprocessed text holds no line break, so it is at most one paragraph
\* and paragraph mode emits exactly one chunk.
C11_ParagraphModeOneChunk ==
    (paper_idx > 1 /\ ~FallbackMode(LastPaper))
        => /\ Len(ParagraphsOf[LastPaper]) = 1
           /\ Len(chunks) = 1

\* C12: with chunk_overlap >= chunk_size, chunk_paper on the fallback path
\* raises no error and emits chunks for the (non-empty) text, each window
\* starting at least one character after the one before.
C12_OverlapTolerated ==
    (paper_idx > 1 /\ chunk_overlap >= chunk_size /\ FallbackMode(LastPaper))
        => /\ (paper_idx - 1) \notin raised_papers
           /\ Len(chunks) >= 1
           /\ \A k \in 1..(Len(chunks) - 1) :
                  chunks[k + 1].start_char > chunks[k].start_char

\* what chunk_paper contributes to a batch: its chunks, or nothing if it raised
ContributionOf(paper) ==
    IF chunk_paper(paper).raised THEN <<>> ELSE chunk_paper(paper).chunks

\* the contributions of the first n papers of the batch, in batch order
RECURSIVE ConcatContributions(_)
ConcatContributions(n) ==
    IF n = 0 THEN <<>>
    ELSE ConcatContributions(n - 1) \o ContributionOf(papers[n])

\* C13: chunk_multiple_papers returns the concatenation, in batch order, of
\* chunk_paper's output for every paper whose segmentation did not raise; a
\* paper whose segmentation raised contributes nothing and does not stop the
\* batch.
C13_FailuresIsolated ==
    /\ all_chunks = ConcatContributions(paper_idx - 1)
    /\ \A i \in raised_papers : i < paper_idx /\ chunk_paper(papers[i]).raised
    /\ \A i \in 1..(paper_idx - 1) : chunk_paper(papers[i]).raised => i \in raised_papers

\* a finished batch whose first paper raised and whose second paper
\* contributed its chunks
C13_Witness ==
    /\ BatchDone
    /\ Len(papers) >= 2
    /\ 1 \in raised_papers
    /\ 2 \notin raised_papers
    /\ all_chunks # <<>>
    /\ all_chunks = chunk_paper(papers[2]).chunks

---------------------------------------------------------------------------
(* Properties of the retriever *)

\* C1: retrieve(q, top_k, t) returns at most top_k results, and every result
\* it returns, from the primary search or from an expansion, has
\* similarity >= t.
C1_RetrieveWithinTopKAboveThreshold ==
    (pc = "done" /\ top_k_arg # None /\ threshold_arg # None)
        => /\ Len(results) <= ValueOf(top_k_arg)
           /\ \A i \in 1..Len(results) : results[i].similarity >= ValueOf(threshold_arg)

---------------------------------------------------------------------------
(* Properties of the citation formatter *)

\* add_citations_to_text has been called
Called == calls_left < MaxCalls

\* the paper titles of a chunk list
TitlesOf(chs) ==
    {chs[k].metadata.paper_title : k \in {j \in 1..Len(chs) :
                                              Truthy(chs[j].metadata.paper_title)}}

\* where paper_title first appears in a chunk list
FirstIndex(chs, paper_title) ==
    CHOOSE k \in 1..Len(chs) :
        /\ chs[k].metadata.paper_title = paper_title
        /\ \A j \in 1..(k - 1) : chs[j].metadata.paper_title # paper_title

\* the place of paper_title among the titles, by first appearance
FirstSeenRank(chs, paper_title) ==
    Cardinality({u \in TitlesOf(chs) :
                    FirstIndex(chs, u) <= FirstIndex(chs, paper_title)})

\* C3: in the answer of one add_citations_to_text call, whatever the draft,
\* the chunk list and the style, each paper_title is given an inline marker
\* at most once, and a sentence carries a marker exactly when it cites a paper.
C3_EachPaperCitedOnce ==
    Called =>
        /\ \A i, j \in 1..Len(cited_answer) :
               (i # j /\ cited_answer[i].cites # NoneVal)
                   => cited_answer[i].cites # cited_answer[j].cites
        /\ \A i \in 1..Len(cited_answer) :
               (cited_answer[i].cites = NoneVal) <=> (cited_answer[i].citation_text = NoMarker)

\* a paper cited at one sentence, with a chunk that matches a later sentence
\* too, and that later sentence not given the paper's marker
C3_Witness ==
    /\ Called
    /\ \E i, j \in 1..Len(cited_answer) : \E k \in 1..Len(cite_chunks) :
           /\ i < j
           /\ cited_answer[i].cites # NoneVal
           /\ cite_chunks[k].metadata.paper_title = cited_answer[i].cites
           /\ sentence_cites_paper(cited_answer[j].sentence, cite_chunks[k].text)
           /\ cited_answer[j].cites # cited_answer[i].cites

\* C4: with style numeric the distinct paper titles get the numbers 1..n in
\* the order of their first appearance in the chunk list, the markers carry
\* these numbers, and every call with style numeric on the same formatter,
\* draft and chunk list returns the same numbers and the same answer.
C4_NumericFirstSeenStable ==
    (Called /\ citation_style = "numeric") =>
        /\ {citations[i].paper_title : i \in 1..Len(citations)} = TitlesOf(cite_chunks)
        /\ \A i \in 1..Len(citations) :
               /\ citations[i].citation_number = i
               /\ FirstSeenRank(cite_chunks, citations[i].paper_title) = i
        /\ \A s \in 1..Len(cited_answer) :
               cited_answer[s].cites # NoneVal =>
                   cited_answer[s].citation_text
                       = NumericMarker(FirstSeenRank(cite_chunks, cited_answer[s].cites))
        /\ Cardinality(numeric_answers) <= 1

\* the second call with style numeric, on a chunk list where a title comes
\* back after another one, with a marker whose number is not 1
C4_Witness ==
    /\ citation_style = "numeric"
    /\ numeric_calls >= 2
    /\ Len(citations) >= 2
    /\ Len(cite_chunks) > Len(citations)
    /\ \E k \in 2..Len(cite_chunks) :
           FirstIndex(cite_chunks, cite_chunks[Len(cite_chunks)].metadata.paper_title) < k
           /\ cite_chunks[k].metadata.paper_title
                  # cite_chunks[Len(cite_chunks)].metadata.paper_title
           /\ Truthy(cite_chunks[k].metadata.paper_title)
    /\ \E s \in 1..Len(cited_answer) : cited_answer[s].citation_text.number >= 2

\* C5: the counter is reset at every add_citations_to_text call, whatever
\* the style: what a call returns is what it returns on a new formatter, and
\* its numeric markers lie in 1..n.
C5_CounterResetEveryCall ==
    Called =>
        LET fresh == add_citations_to_text(draft, cite_chunks, citation_style, 0)
        IN  /\ cited_answer = fresh.cited_text
            /\ citations = fresh.citation_map
            /\ \A s \in 1..Len(cited_answer) :
                   cited_answer[s].citation_text.kind = "numeric"
                       => cited_answer[s].citation_text.number \in 1..Len(citations)

---------------------------------------------------------------------------
(* Properties of the retriever, continued *)

\* C14 as stated: the results of retrieve are strictly sorted by similarity,
\* every result having a greater similarity than the next one.
C14_StrictlySorted ==
    pc = "done" =>
        \A i \in 1..(Len(results) - 1) :
            results[i].similarity > results[i + 1].similarity

\* C14 amended: the results of retrieve are sorted by similarity descending,
\* no result having a smaller similarity than the next one, also when results
\* of expansion queries were merged.
C14_SortedDescending ==
    pc = "done" =>
        \A i \in 1..(Len(results) - 1) :
            results[i].similarity >= results[i + 1].similarity

\* a result of an expansion query returned ahead of a result of the primary
\* query that has a smaller similarity
C14_Witness ==
    /\ pc = "done"
    /\ \E i, j \in 1..Len(results) :
           /\ i < j
           /\ results[i].from_expanded_query
           /\ ~results[j].from_expanded_query
           /\ results[i].similarity > results[j].similarity

C16_ExpansionDiscipline ==
    LET n == Len(search_calls)
    IN  /\ n >= 1 => /\ search_calls[1].query = 0
                     /\ search_calls[1].top_k = TopK
        /\ \A i \in 2..n :
               /\ search_calls[1].returned < TopK
               /\ search_calls[i].query = expanded_queries[i - 1]
               /\ search_calls[i].top_k = TopK - search_calls[1].returned
               /\ search_calls[i].had < search_calls[i].top_k
        /\ (n >= 1 /\ search_calls[1].returned >= TopK) => n = 1
        /\ pc \in {"expand", "merge"} =>
               Len(results) + Len(additional_results) <= TopK

\* a call whose second expansion search filled the budget, so that the third
\* expansion query was never searched
C16_Witness ==
    /\ pc = "done"
    /\ Len(expanded_queries) = 3
    /\ Len(search_calls) = 3
    /\ Len(additional_results) = search_calls[3].top_k
    /\ search_calls[3].had > 0

---------------------------------------------------------------------------
(* Properties of retrieve_similar_chunks *)

\* C17: retrieve_similar_chunks(chunk_id, top_k) returns at most top_k
\* results, none of them the chunk stored under chunk_id, and returns the
\* empty list for a chunk_id that is not stored.
C17_SimilarExcludesReference ==
    sim_pc = "done" =>
        /\ Len(similar_chunks) <= sim_top_k
        /\ \A i \in 1..Len(similar_chunks) :
               StoredId(similar_chunks[i].stored) # sim_chunk_id
        /\ sim_chunk_id = UnstoredId => similar_chunks = <<>>

---------------------------------------------------------------------------
(* Properties of validate_retrieval_quality *)

IssuesFlagged == {quality.quality_issues[i] : i \in 1..Len(quality.quality_issues)}

---------------------------------------------------------------------------
(* Properties of expand_query *)

\* C19: for every non-empty query and every max_expansions, expand_query
\* returns at most max_expansions strings, the first of which is the cleaned
\* original query.
C19_CleanedQueryFirst ==
    expand_pc = "done" =>
        /\ Len(expansions) <= max_expansions
        /\ Len(expansions) >= 1
        /\ expansions[1] = preprocess_query(query_arg)

\* C20: no two entries of the list expand_query returns are equal when
\* compared without regard to letter case, whatever the key phrases are.
C20_NoCaseInsensitiveDuplicates ==
    expand_pc = "done" =>
        \A i, j \in 1..Len(expansions) :
            i # j => lower_text(expansions[i]) # lower_text(expansions[j])

---------------------------------------------------------------------------
(* Properties of classify_query_type *)

\* query.split()[0] in lower case, the empty text for a query without a word
FirstWordLower(query) ==
    LET txt == lower_text(query)
        starts == {i \in 1..Len(txt) : ~IsSpace(txt[i])}
    IN  IF starts = {} THEN <<>>
        ELSE LET a == CHOOSE i \in starts : \A k \in starts : i <= k
                 b == CHOOSE j \in a..Len(txt) :
                          /\ \A k \in a..j : ~IsSpace(txt[k])
                          /\ j = Len(txt) \/ IsSpace(txt[j + 1])
             IN  SubSeq(txt, a, b)

\* C21: classify_query_type returns question exactly when the first word of
\* the query is a question word; otherwise comparison, summary or method for
\* the first of these vocabularies with a keyword in the query; and general
\* when none matches.
C21_ClassifiedByFirstWordThenKeywords ==
    classify_pc = "done" =>
        LET txt == lower_text(classify_query)
        IN  query_type =
                IF FirstWordLower(classify_query) \in question_words THEN "question"
                ELSE IF \E w \in comparison_words : Contains(txt, w) THEN "comparison"
                ELSE IF \E w \in summary_words : Contains(txt, w) THEN "summary"
                ELSE IF \E w \in method_words : Contains(txt, w) THEN "method"
                ELSE "general"

---------------------------------------------------------------------------
(* Properties of the citation formatter, continued *)

\* the tokens of a text that are no stopwords
SignificantTokens(txt) == WordSet(txt) \ common_words

\* the lexical overlap ratio of a sentence with a chunk exceeds 0.3
OverlapExceeds(sentence, chunk_text) ==
    /\ SignificantTokens(sentence) # {}
    /\ 10 * Cardinality(SignificantTokens(sentence) \cap SignificantTokens(chunk_text))
           > 3 * Cardinality(SignificantTokens(sentence))

\* the papers the sentences before the k-th were given a marker of
CitedBefore(k) ==
    {cited_answer[j].cites : j \in {i \in 1..(k - 1) : cited_answer[i].cites # NoneVal}}

\* the chunks that can give the k-th sentence its marker
Eligible(k) ==
    {c \in 1..Len(cite_chunks) :
        /\ Truthy(cite_chunks[c].metadata.paper_title)
        /\ OverlapExceeds(cited_answer[k].sentence, cite_chunks[c].text)
        /\ cite_chunks[c].metadata.paper_title \notin CitedBefore(k)}

\* C22: every sentence of the draft, in order, carries the marker of the
\* first chunk whose overlap ratio with it exceeds 0.3 and whose paper no
\* earlier sentence cites, and no marker when there is no such chunk.
C22_MarkerOfFirstEligibleChunk ==
    Called =>
        /\ Len(cited_answer) = Len(split_sentences(draft))
        /\ \A k \in 1..Len(cited_answer) :
               /\ cited_answer[k].sentence = split_sentences(draft)[k]
               /\ IF Eligible(k) = {}
                  THEN /\ cited_answer[k].citation_text = NoMarker
                       /\ cited_answer[k].cites = NoneVal
                  ELSE LET c == CHOOSE e \in Eligible(k) : \A g \in Eligible(k) : e <= g
                       IN  /\ cited_answer[k].cites = cite_chunks[c].metadata.paper_title
                           /\ cited_answer[k].citation_text # NoMarker

\* a first sentence that carries the marker of paper A, and a second one
\* whose overlap ratio with the chunk of the uncited paper B is exactly 0.3
\* and that carries no marker
C22_Witness ==
    /\ Called
    /\ draft = DraftTenWords
    /\ cite_chunks = <<[text |-> TextNets, metadata |-> MetadataA],
                       [text |-> TextNets, metadata |-> MetadataB]>>
    /\ cited_answer[1].cites = "A"
    /\ cited_answer[2].citation_text = NoMarker

---------------------------------------------------------------------------
(* Properties of the bibliography and of the synthesizer *)

\* the call has returned
Synthesized == synth_pc = "done"

\* the answer is a draft that went through add_citations_to_text and
\* generate_bibliography
Rendered == Synthesized /\ synthesized.answer.kind = "cited"

\* the key the bibliography of a style is ordered by: the citation number,
\* or the place of the first author (Anonymous without authors) in the alphabet
OrderKey(citation, sty) ==
    IF style_lower(sty) = "numeric" THEN citation.citation_number
    ELSE LET name == IF citation.authors = <<>> THEN "Anonymous" ELSE citation.authors[1]
         IN  CHOOSE r \in 1..Len(AuthorKeys) : AuthorKeys[r] = name

\* the place of citation j of the map in the bibliography: after the
\* citations of smaller key, and after those of equal key that the map holds
\* earlier
PlaceOf(citation_map, sty, j) ==
    1 + Cardinality({i \in 1..Len(citation_map) :
                        \/ OrderKey(citation_map[i], sty) < OrderKey(citation_map[j], sty)
                        \/ /\ OrderKey(citation_map[i], sty) = OrderKey(citation_map[j], sty)
                           /\ i < j})

\* one entry for each citation of the map, each at its place; for style
\* numeric, entry n is the paper of number n and of every marker [n]
EntriesInOrder(answer, sty) ==
    /\ answer.bibliography.heading = "## References"
    /\ Len(answer.bibliography.entries) = Len(answer.citations)
    /\ \A j \in 1..Len(answer.citations) :
          answer.bibliography.entries[PlaceOf(answer.citations, sty, j)]
              = get_bibliography_entry(answer.citations[j], sty)
    /\ style_lower(sty) = "numeric" =>
          /\ \A j \in 1..Len(answer.citations) :
                PlaceOf(answer.citations, sty, j) = answer.citations[j].citation_number
          /\ \A k \in 1..Len(answer.answer.cited_text) :
                LET marked == answer.answer.cited_text[k]
                IN  marked.citation_text # NoMarker =>
                       /\ marked.citation_text.kind = "numeric"
                       /\ marked.citation_text.number \in 1..Len(answer.citations)
                       /\ answer.bibliography.entries[marked.citation_text.number].title_text
                              = marked.cites

C24_ConfidenceWithinUnitInterval ==
    (Synthesized /\ synth_call.entry = "synthesize_answer") =>
        /\ 0 <= synthesized.confidence_score.num
        /\ synthesized.confidence_score.num <= synthesized.confidence_score.den

\* C25: when retrieval yields no chunks, the answer that synthesize_answer
\* returns and the answer that ReSynthAgent.query returns both have
\* confidence 0.0, the placeholder message, no citation and an empty
\* bibliography
C25_NoChunksPlaceholder ==
    (Synthesized /\ retrieved_chunks = <<>>) =>
        /\ synthesized.confidence_score = Fraction(0, 1)
        /\ synthesized.answer = NoInformation
        /\ synthesized.citations = <<>>
        /\ synthesized.bibliography = NoBibliography

\* the completion service is not used for want of a key, or its call raises
LlmUnavailableOrFailed == ~synth_call.use_openai \/ synth_call.reply.raises

\* C26: when the completion service is unavailable or fails, synthesize_answer
\* on a chunk list that is not empty returns a locally drafted answer with
\* its citations: the citation map holds one entry for each paper title of
\* the chunks
C26_FallbackKeepsCitations ==
    (/\ Synthesized
     /\ synth_call.entry = "synthesize_answer"
     /\ retrieved_chunks # <<>>
     /\ LlmUnavailableOrFailed) =>
        /\ synthesized.answer.kind = "cited"
        /\ Len(synthesized.citations) = Cardinality(TitlesOf(retrieved_chunks))
        /\ {synthesized.citations[i].paper_title : i \in 1..Len(synthesized.citations)}
               = TitlesOf(retrieved_chunks)

---------------------------------------------------------------------------
(* Properties of the retriever: failures and chunk ids *)

\* C27: a search that raises never ends retrieve with an exception.  When the
\* primary search raises, retrieve returns [] and searches no more.  When
\* the search for an expansion query raises, the next expansion query of the
\* list is searched with nothing lost of what was collected, and the call
\* returns every result of the primary search and every additional result
\* collected before and after.
C27_SearchFailuresContained ==
    LET n == Len(search_calls)
    IN  /\ (n >= 1 /\ search_calls[1].raised) =>
               /\ pc = "done"
               /\ results = <<>>
               /\ n = 1
        /\ \A i \in 2..n :
               (search_calls[i].raised /\ i - 1 < Len(expanded_queries)) =>
                   \/ /\ n = i
                      /\ pc = "expand"
                      /\ exp_idx = i
                      /\ ExpansionContinues
                   \/ /\ n > i
                      /\ search_calls[i + 1].query = expanded_queries[i]
                      /\ search_calls[i + 1].had = search_calls[i].had
        /\ (pc = "done" /\ n >= 1 /\ ~search_calls[1].raised) =>
               /\ Len(results) = search_calls[1].returned + Len(additional_results)
               /\ \A i \in 1..Len(additional_results) :
                      \E j \in 1..Len(results) : results[j] = additional_results[i]

\* a call whose first expansion search raised, whose second one found what
\* the primary search had missed, and which returned both
C27_Witness ==
    /\ pc = "done"
    /\ Len(search_calls) = 3
    /\ search_calls[1].returned = 1
    /\ search_calls[2].raised
    /\ ~search_calls[3].raised
    /\ Len(additional_results) = 1
    /\ Len(results) = 2

\* C28: every result of a search carries as chunk_id the id add_chunks
\* stored its chunk under, so that, among the results one retrieve call has
\* collected, two have the same chunk_id exactly when they are the same
\* stored chunk
C28_ChunkIdIsStoredId ==
    LET collected == results \o additional_results
    IN  /\ \A i \in 1..Len(collected) :
               collected[i].chunk_id = StoredId(collected[i].stored)
        /\ \A i, j \in 1..Len(collected) :
               (collected[i].chunk_id = collected[j].chunk_id)
                   <=> (collected[i].stored = collected[j].stored)

---------------------------------------------------------------------------
(* Properties of the chunk segmenter, continued *)

\* the text of chunk k without the overlap tail it was seeded with (lines
\* 76-79: the last chunk_overlap characters of the chunk before and "\n\n")
NonOverlapContent(cs, k) ==
    IF k > 1 /\ chunk_overlap > 0 /\ Len(cs[k - 1].text) > chunk_overlap
    THEN SubSeq(cs[k].text, chunk_overlap + 3, Len(cs[k].text))
    ELSE cs[k].text

\* the paragraphs read off the first k chunks, in order
RECURSIVE ParagraphsRead(_, _)
ParagraphsRead(cs, k) ==
    IF k = 0 THEN <<>>
    ELSE ParagraphsRead(cs, k - 1) \o SplitParagraphs(NonOverlapContent(cs, k), 1)

===========================================================================
